---------------------------- MODULE Spec2Model ----------------------------
(***************************************************************************)
(* Model of the account-editor backend (Go/Gin): the relational store      *)
(* (users, user_settings, automation_tasks), the authentication            *)
(* middleware, the Login handler, and the asynchronous task machinery      *)
(* (CreateTask handler plus the detached executeTask goroutine and the     *)
(* panel API client with its simulation mode), the administration of the   *)
(* users table, the per-address rate limiter and the token lifetime.       *)
(*                                                                         *)
(* Modelling decisions:                                                    *)
(*  - Text is a sequence of atoms (strings); a substring test is a         *)
(*    membership test on atoms.                                            *)
(*  - The SQLite store is reliable: the error branches of db.First /       *)
(*    db.Save / db.Create that only fire on a storage fault are not        *)
(*    modelled.  ErrRecordNotFound branches are modelled.                  *)
(*  - A goroutine may panic at any statement up to and including its       *)
(*    last panel call; after the final db.Save only logging remains.       *)
(***************************************************************************)
EXTENDS Integers, Sequences, FiniteSets, TLC

VARIABLES
    users,      \* table users: set of rows
    nextUserId, \* AUTOINCREMENT counter of users
    settings,   \* table user_settings: set of rows
    tasks,      \* table automation_tasks: sequence of rows, id = index
    held,       \* token kept by the client of each username
    now,        \* wall clock, minutes
    created,    \* per task: the CreateTask handler that inserted it
    exec,       \* per task: the executeTask goroutine
    resp,       \* last HTTP response written by a handler or middleware
    serverUp,   \* FALSE once an unrecovered panic killed the process
    flight,     \* handlers that have started and not yet answered
    saved,      \* per user id: body of the last UpdateSettings answered 200
    poll,       \* the frontend's pollTaskCompletion session
    issued,     \* per username: id of the row the held token was issued to
    gate        \* the IP rate limiter in front of every route

vars == <<users, nextUserId, settings, tasks, held, now, created, exec, resp, serverUp,
         flight, saved, poll, issued, gate>>

store == <<users, nextUserId, settings, tasks>>

\* What the request-at-a-time handlers and the goroutine never touch.
rest == <<flight, saved, poll, issued, gate>>

-----------------------------------------------------------------------------
(* Bounds *)

MaxTasks == 1

MaxUsers == 3

MaxTime == 60

CurrentYear == 2026

MaxFlight == 2

MaxInflight == 1

MaxCalls == 2

MaxOther == 2

MaxMinutes == 35

-----------------------------------------------------------------------------
(* Program constants *)

AccessTokenExpireMinutes == 30

SecretKey == "your-256-bit-secret-key-here"

BcryptCost == 14

MaxJSONYear == 9999

StatusOK == 200

StatusCreated == 201

StatusBadRequest == 400

StatusUnauthorized == 401

StatusForbidden == 403

StatusNotFound == 404

StatusTooManyRequests == 429

StatusInternalServerError == 500

\* rate.NewLimiter(rate.Limit(10), 20): the bucket holds 20 tokens.
Burst == 20

PollIntervalMs == 2000

PollTimeoutMs == 300000

-----------------------------------------------------------------------------
(* Input domains *)

Usernames == {"admin", "bob"}

Passwords == {"admin", "pw"}

KnownTaskNames == {"create_account", "find_account", "extend_package"}

-----------------------------------------------------------------------------
(* Values *)

NullTime == [valid |-> FALSE, time |-> 0]

TimeAt(t) == [valid |-> TRUE, time |-> t]

NoResult == [present |-> FALSE, success |-> FALSE, error |-> <<>>, data |-> <<>>]

NoToken == [wellformed |-> FALSE, username |-> "", exp |-> 0, key |-> ""]

NoUser == [id |-> 0, username |-> "", hashed_password |-> <<>>, is_active |-> FALSE,
           is_admin |-> FALSE, last_login_at |-> NullTime]

NoRequest == [name |-> "", target_website |-> "", username |-> "", package |-> 0]

NoTask == [user_id |-> 0, name |-> "", status |-> "", target_website |-> "",
           result |-> NoResult, completed_at |-> NullTime]

NoCalls == [create |-> 0, lines |-> 0, renew |-> 0]

-----------------------------------------------------------------------------
(* pkg/utils/auth.go *)

HashPassword(password) == <<"bcrypt", BcryptCost, password>>

CheckPasswordHash(password, hash) == hash = HashPassword(password)

CreateAccessToken(username) ==
    [wellformed |-> TRUE, username |-> username,
     exp |-> now + AccessTokenExpireMinutes, key |-> SecretKey]

\* Variant: the parser is told to skip the validation of the claims.
VerifyTokenNoExpiry(tok) == tok.wellformed /\ tok.key = SecretKey

\* jwt.ParseWithClaims checks the signature and then the exp claim: the
\* token is valid while the current time is before exp.
VerifyToken(tok) == tok.wellformed /\ tok.key = SecretKey /\ now < tok.exp

UserByName(username) ==
    IF \E u \in users : u.username = username
    THEN CHOOSE u \in users : u.username = username
    ELSE NoUser

UserById(id) ==
    IF \E u \in users : u.id = id
    THEN CHOOSE u \in users : u.id = id
    ELSE NoUser

\* Variant: the bcrypt comparison is skipped.
AuthenticateUserAnyPassword(username, password) ==
    LET user == UserByName(username) IN
    IF user = NoUser THEN [ok |-> FALSE, user |-> NoUser]
    ELSE IF ~user.is_active THEN [ok |-> FALSE, user |-> NoUser]
    ELSE [ok |-> TRUE, user |-> user]

AuthenticateUser(username, password) ==
    LET user == UserByName(username) IN
    IF user = NoUser THEN [ok |-> FALSE, user |-> NoUser]
    ELSE IF ~CheckPasswordHash(password, user.hashed_password) THEN [ok |-> FALSE, user |-> NoUser]
    ELSE IF ~user.is_active THEN [ok |-> FALSE, user |-> NoUser]
    ELSE [ok |-> TRUE, user |-> user]

-----------------------------------------------------------------------------
(* internal/middleware/auth.go *)

ToLower(s) ==
    CASE s = "Bearer" -> "bearer"
      [] s = "BEARER" -> "bearer"
      [] s = "Basic" -> "basic"
      [] OTHER -> s

NoHeader == [parts |-> 0, scheme |-> "", token |-> NoToken]

Pass(user) == [code |-> StatusOK, error |-> "", user |-> user]

Abort(code, error) == [code |-> code, error |-> error, user |-> NoUser]

AuthRequired(h) ==
    IF h.parts = 0
    THEN Abort(StatusUnauthorized, "Authorization header is required")
    ELSE IF h.parts # 2 \/ ToLower(h.scheme) # "bearer"
    THEN Abort(StatusUnauthorized, "Authorization header format must be Bearer {token}")
    ELSE IF ~VerifyToken(h.token)
    THEN Abort(StatusUnauthorized, "Invalid or expired token")
    ELSE Pass([NoUser EXCEPT !.username = h.token.username])

\* Variant: the is_active test of lines 69-74 is missing.
GetCurrentUserAnyStatus(username) ==
    LET user == UserByName(username) IN
    IF user = NoUser THEN Abort(StatusUnauthorized, "User not found")
    ELSE Pass(user)

GetCurrentUser(username) ==
    LET user == UserByName(username) IN
    IF user = NoUser THEN Abort(StatusUnauthorized, "User not found")
    ELSE IF ~user.is_active THEN Abort(StatusUnauthorized, "User is inactive")
    ELSE Pass(user)

\* Variant: the is_admin test of lines 98-104 is missing.
AdminRequiredAnyUser(u) == Pass(u)

AdminRequired(u) ==
    IF ~u.is_admin THEN Abort(StatusForbidden, "Admin access required")
    ELSE Pass(u)

\* The middleware chain in front of a route group, as registered in main.
Chain(group, h) ==
    LET a == AuthRequired(h) IN
    IF a.code # StatusOK THEN a
    ELSE LET g == GetCurrentUser(a.user.username) IN
         IF g.code # StatusOK THEN g
         ELSE IF group = "admin" THEN AdminRequired(g.user)
         ELSE g

-----------------------------------------------------------------------------
(* Requests a client can send *)

ForgedToken == [wellformed |-> TRUE, username |-> "admin",
                exp |-> MaxTime + AccessTokenExpireMinutes, key |-> "attacker-key"]

GarbageToken == [wellformed |-> FALSE, username |-> "admin", exp |-> 0, key |-> ""]

PresentableTokens == {held[u] : u \in Usernames} \cup {ForgedToken, GarbageToken}

Headers ==
    {NoHeader}
    \cup {[parts |-> 2, scheme |-> "Bearer", token |-> t] : t \in PresentableTokens}
    \cup {[parts |-> 2, scheme |-> "bearer", token |-> held["admin"]],
          [parts |-> 2, scheme |-> "Basic", token |-> held["admin"]],
          [parts |-> 3, scheme |-> "Bearer", token |-> held["admin"]]}

\* A request whose middleware chain aborts never has its body read: one
\* body stands for all of them.
BodyMatters(group, h, req, reqs) ==
    Chain(group, h).code = StatusOK \/ req = CHOOSE r \in reqs : TRUE

-----------------------------------------------------------------------------
(* Panel API client *)

HTMLMarkers == {"<!DOCTYPE", "<html", "<body", "<head", "<title"}

isHTMLResponse(body) == \E i \in DOMAIN body : body[i] \in HTMLMarkers

formatConnectionError(url, status) ==
    IF status = 404
    THEN "The panel URL is incorrect or the service could not be found. Please check your settings."
    ELSE IF status >= 500
    THEN "The external service is currently unavailable. Please try again later."
    ELSE "Could not connect to the panel. Please verify your panel URL and try again."

NewAPIClient(baseURL, apiKey, authUser) ==
    [BaseURL |-> baseURL, APIKey |-> apiKey, AuthUser |-> authUser]

NoClient == NewAPIClient("", "", "")

IsSimulationMode(c) == c.APIKey = "test" /\ c.AuthUser = "test"

NoLine == [line_id |-> "", expire_year |-> 0]

NoValue == [line_id |-> "", expire_year |-> 0, lines |-> <<>>]

Failure(msg) == [err |-> TRUE, msg |-> msg, value |-> NoValue]

Success(value) == [err |-> FALSE, msg |-> <<>>, value |-> value]

NoReply == [transport_err |-> FALSE, status |-> 0, body |-> <<>>, envelope_ok |-> FALSE,
            envelope_error |-> <<>>, decodes |-> FALSE, lines |-> <<>>, line_id |-> ""]

\* What the panel (or the network) answers to one HTTP request: no answer,
\* an HTML page inside a JSON envelope (404), HTML pages (503, 403), a JSON
\* envelope whose error text holds an escaped tag (500), and two answers
\* with status 200.
PanelReplies ==
    { [NoReply EXCEPT !.transport_err = TRUE],
      [NoReply EXCEPT !.status = 404, !.body = <<"{", "<html", "}">>, !.envelope_ok = TRUE,
                      !.envelope_error = <<"<html">>],
      [NoReply EXCEPT !.status = 503, !.body = <<"<!DOCTYPE", "<head", "Unavailable">>],
      [NoReply EXCEPT !.status = 403, !.body = <<"<title", "<body", "Forbidden">>],
      [NoReply EXCEPT !.status = 500, !.body = <<"{", "\\u003chtml", "}">>, !.envelope_ok = TRUE,
                      !.envelope_error = <<"<html">>],
      [NoReply EXCEPT !.status = 200, !.body = <<"[", "]">>, !.decodes = TRUE, !.line_id = "L7"],
      [NoReply EXCEPT !.status = 200, !.body = <<"{", "L7", "}">>, !.decodes = TRUE,
                      !.lines = <<[line_id |-> "L7", expire_year |-> CurrentYear],
                                  [line_id |-> "L8", expire_year |-> CurrentYear]>>,
                      !.line_id = "L7"] }

\* Variant: the JSON envelope is tried before the HTML test.
ReadReplyEnvelopeFirst(c, out, value) ==
    IF out.transport_err
    THEN Failure(<<"error making request: ", "timeout">>)
    ELSE IF out.status # StatusOK
    THEN IF Len(out.body) > 0 /\ out.body[1] = "{"
         THEN IF ~out.envelope_ok
              THEN Failure(<<"error response (status ", ToString(out.status), "): ">> \o out.body)
              ELSE Failure(<<"API error: ">> \o out.envelope_error \o <<" (RID: ", "rid", ")">>)
         ELSE IF isHTMLResponse(out.body)
         THEN Failure(<<"connection error: ", formatConnectionError(c.BaseURL, out.status)>>)
         ELSE Failure(<<"unexpected response (status ", ToString(out.status), "): ">> \o out.body)
    ELSE IF ~out.decodes
    THEN Failure(<<"error decoding response: ", "unexpected EOF">>)
    ELSE Success(value)

\* Lines 117-147 of CreateAccount, repeated verbatim in FindAccount and
\* ExtendPackage: transport error, non-200 classification, body decoding.
ReadReply(c, out, value) ==
    IF out.transport_err
    THEN Failure(<<"error making request: ", "timeout">>)
    ELSE IF out.status # StatusOK
    THEN IF isHTMLResponse(out.body)
         THEN Failure(<<"connection error: ", formatConnectionError(c.BaseURL, out.status)>>)
         ELSE IF Len(out.body) > 0 /\ out.body[1] = "{"
         THEN IF ~out.envelope_ok
              THEN Failure(<<"error response (status ", ToString(out.status), "): ">> \o out.body)
              ELSE Failure(<<"API error: ">> \o out.envelope_error \o <<" (RID: ", "rid", ")">>)
         ELSE Failure(<<"unexpected response (status ", ToString(out.status), "): ">> \o out.body)
    ELSE IF ~out.decodes
    THEN Failure(<<"error decoding response: ", "unexpected EOF">>)
    ELSE Success(value)

CreateAccount(c, req, out) ==
    ReadReply(c, out, [NoValue EXCEPT !.line_id = out.line_id, !.expire_year = CurrentYear])

FindAccount(c, username, out) ==
    ReadReply(c, out, [NoValue EXCEPT !.lines = out.lines])

ExtendPackage(c, lineID, req, out) ==
    ReadReply(c, out, [NoValue EXCEPT !.line_id = out.line_id, !.expire_year = CurrentYear])

\* Go integer division truncates toward zero.
GoDiv(a, b) == IF a >= 0 THEN a \div b ELSE -((-a) \div b)

\* time.Now().AddDate(0, months, 0).Year(), taking January as the current month.
AddMonthsYear(months) == CurrentYear + (months \div 12)

SimLineIds == <<"sim-uuid-1", "sim-uuid-2", "sim-uuid-3">>

SimulateCreateAccount(c, req) ==
    Success([NoValue EXCEPT !.line_id = SimLineIds[1],
                            !.expire_year = AddMonthsYear(GoDiv(req.package, 100))])

\* rand.Intn(3) is the caller-supplied draw.
SimulateFindAccount(c, username, draw) ==
    LET count == IF username # "" THEN 1 ELSE 1 + draw IN
    Success([NoValue EXCEPT !.lines =
        [i \in 1..count |-> [line_id |-> SimLineIds[i], expire_year |-> CurrentYear]]])

SimulateExtendPackage(c, lineID, req) ==
    Success([NoValue EXCEPT !.line_id = lineID,
                            !.expire_year = AddMonthsYear(GoDiv(req.package, 100))])

-----------------------------------------------------------------------------
(* internal/automation/handler.go: results written by executeTask *)

containsHTML(str) == \E i \in DOMAIN str : str[i] \in HTMLMarkers

sanitizeErrorMessage(errMsg) ==
    IF containsHTML(errMsg)
    THEN <<"Connection error: The external service URL appears to be incorrect or not responding properly.">>
    ELSE errMsg

\* json.Marshal of a result map: fails iff a time.Time in it has a year
\* outside [0, 9999].
MarshalFails(years) == \E y \in years : y < 0 \/ y > MaxJSONYear

ErrorResult(msg) == [present |-> TRUE, success |-> FALSE, error |-> msg, data |-> <<>>]

DataResult(ids) == [present |-> TRUE, success |-> TRUE, error |-> <<>>, data |-> ids]

\* The error branch after a panel call (e.g. lines 171-196).
FailTask(task, msg, at) ==
    [task EXCEPT !.status = "failed",
                 !.result = ErrorResult(sanitizeErrorMessage(msg)),
                 !.completed_at = TimeAt(at)]

\* Variant: the marshal-failure branch forgets to reset the status.
CompleteTaskKeepStatus(task, ids, years, at) ==
    IF MarshalFails(years)
    THEN [task EXCEPT !.status = "completed",
                      !.completed_at = TimeAt(at),
                      !.result = ErrorResult(<<"Failed to serialize result data">>)]
    ELSE [task EXCEPT !.status = "completed",
                      !.completed_at = TimeAt(at),
                      !.result = DataResult(ids)]

\* The success branch after a panel call (e.g. lines 198-229).
CompleteTask(task, ids, years, at) ==
    IF MarshalFails(years)
    THEN [task EXCEPT !.status = "failed",
                      !.completed_at = TimeAt(at),
                      !.result = ErrorResult(<<"Failed to serialize result data">>)]
    ELSE [task EXCEPT !.status = "completed",
                      !.completed_at = TimeAt(at),
                      !.result = DataResult(ids)]

\* The deferred recover() handler, lines 102-124.
RecoverTask(task, at) ==
    [task EXCEPT !.status = "failed",
                 !.result = ErrorResult(<<"Internal server error: task execution panicked">>),
                 !.completed_at = TimeAt(at)]

-----------------------------------------------------------------------------
(* HTTP responses.  "entitled" records whether the request was entitled to  *)
(* be served when it arrived and "wrote" whether serving it changed the     *)
(* store; they are observations, not program state.                         *)

NoBody == [website_url |-> "", api_key |-> "", auth_user |-> ""]

\* What a response carries beyond its status: "admin" and "requester" are
\* observations about the request (its token names an administrator; the id
\* of the user it names), "arg" the path parameter, "rows" the ids of the
\* task rows in the body, "body" the settings fields in the body, "subject"
\* the id of the row the presented token was issued to.
NoExtra == [admin |-> FALSE, requester |-> 0, arg |-> 0, rows |-> {}, body |-> NoBody,
            subject |-> 0]

NoResp == [op |-> "", code |-> 0, error |-> "", ran |-> FALSE, token |-> FALSE,
           wrote |-> FALSE, entitled |-> FALSE] @@ NoExtra

\* The request carries "Bearer <token>" (scheme in any letter case, as HTTP
\* auth schemes are), the token is signed with the server key and unexpired,
\* and its username is that of an existing active user.
HeaderFacts(h) ==
    /\ h.parts = 2 /\ h.scheme \in {"Bearer", "bearer", "BEARER"}
    /\ h.token.wellformed /\ h.token.key = SecretKey /\ h.token.exp > now
    /\ \E u \in users : u.username = h.token.username /\ u.is_active

\* The username exists, the password is the one stored for it, and the user
\* is active.
LoginFacts(username, password) ==
    \E u \in users : /\ u.username = username
                     /\ u.hashed_password = <<"bcrypt", BcryptCost, password>>
                     /\ u.is_active

\* The id of the user a request's token names, 0 if there is none.
RequesterId(h) ==
    IF \E u \in users : u.username = h.token.username
    THEN (CHOOSE u \in users : u.username = h.token.username).id
    ELSE 0

\* The request is entitled to be served and the user it names is an
\* administrator.
AdminFacts(h) ==
    /\ HeaderFacts(h)
    /\ \E u \in users : u.username = h.token.username /\ u.is_admin

\* c.JSON / c.AbortWithStatusJSON
RespondWith(op, code, error, ran, token, entitled, extra) ==
    resp' = [op |-> op, code |-> code, error |-> error, ran |-> ran, token |-> token # NoToken,
             wrote |-> <<users', nextUserId', settings', tasks'>> # store,
             entitled |-> entitled] @@ extra

Respond(op, code, error, ran, token, entitled) ==
    RespondWith(op, code, error, ran, token, entitled, NoExtra)

AdminExtra(h) == [NoExtra EXCEPT !.admin = AdminFacts(h)]

-----------------------------------------------------------------------------
(* Initial state: main has run Initialize and createDefaultAdminUser on an  *)
(* empty database.                                                          *)

\* A handler between its lookup and its write: the user the middleware put
\* in the context, the bound request, and what the lookup found.
NoFlight == [op |-> "", user |-> NoUser, username |-> "", password |-> "", is_admin |-> FALSE,
             body |-> NoBody, found |-> FALSE, entitled |-> FALSE, admin |-> FALSE]

NoFlights == [i \in 1..MaxFlight |-> NoFlight]

\* The lowest free slot for a handler that starts.
FreeSlot == CHOOSE i \in 1..MaxFlight : flight[i] = NoFlight /\ \A j \in 1..(i - 1) : flight[j] # NoFlight

NoSaved == [id \in 1..MaxUsers |-> NoBody]

\* The page's polling session: the task polled, the two timers (interval
\* running, timeout pending), whether an interval callback is due, the time
\* since the session began, the requests on their way to the server and the
\* answers on their way back, and the error and output the page shows.
\* "observed" and "failed" record that a poll saw a terminal status and
\* that a poll request failed.
NoPoll == [task |-> 0, interval |-> FALSE, timeout |-> FALSE, due |-> FALSE, elapsed |-> 0,
           sent |-> 0, replies |-> <<>>, error |-> "", output |-> FALSE,
           observed |-> FALSE, failed |-> FALSE]

NoIssued == [u \in Usernames |-> 0]

\* Requests from two client addresses.
ClientIPs == {"10.0.0.1", "10.0.0.2"}

\* One request inside RateLimiterMiddleware: its client address, its
\* position, and the limiter GetLimiter holds in its local variable.
NoCall == [ip |-> "", pc |-> "idle", limiter |-> 0]

\* The IPRateLimiter: the map ips (0: no entry; otherwise the index of the
\* limiter among those made for the address), the tokens left in each
\* limiter made so far, the requests inside the middleware, and on record
\* the number of requests of each address handed to the next handler.
NoGate == [ips |-> [ip \in ClientIPs |-> 0], limiters |-> [ip \in ClientIPs |-> <<>>],
           calls |-> [i \in 1..MaxCalls |-> NoCall],
           admitted |-> [ip \in ClientIPs |-> 0]]

DefaultAdmin ==
    [id |-> 1, username |-> "admin", hashed_password |-> HashPassword("admin"),
     is_active |-> TRUE, is_admin |-> TRUE, last_login_at |-> NullTime]

Init ==
    /\ users = {DefaultAdmin}
    /\ nextUserId = 2
    /\ settings = {}
    /\ tasks = <<>>
    /\ held = [u \in Usernames |-> NoToken]
    /\ now = 0
    /\ created = <<>>
    /\ exec = <<>>
    /\ resp = NoResp
    /\ serverUp = TRUE
    /\ flight = NoFlights
    /\ saved = NoSaved
    /\ poll = NoPoll
    /\ issued = NoIssued
    /\ gate = NoGate

-----------------------------------------------------------------------------
(* internal/auth/handler.go: Login *)

LoginUsernames == Usernames \cup {"", "ghost"}

LoginPasswords == Passwords \cup {""}

Login(username, password) ==
    /\ serverUp
    /\ UNCHANGED <<flight, saved, poll>>
    /\ UNCHANGED <<nextUserId, settings, tasks, now, created, exec, serverUp>>
    /\ IF username = "" \/ password = ""
       THEN /\ UNCHANGED <<users, held, issued>>
            /\ Respond("Login", StatusBadRequest, "binding", TRUE, NoToken,
                       LoginFacts(username, password))
       ELSE LET a == AuthenticateUser(username, password) IN
            IF ~a.ok
            THEN /\ UNCHANGED <<users, held, issued>>
                 /\ Respond("Login", StatusUnauthorized, "Invalid username or password",
                            TRUE, NoToken, LoginFacts(username, password))
            ELSE IF ~a.user.is_active
            THEN /\ UNCHANGED <<users, held, issued>>
                 /\ Respond("Login", StatusUnauthorized,
                            "Account is inactive. Please contact administrator.",
                            TRUE, NoToken, LoginFacts(username, password))
            ELSE LET user == [a.user EXCEPT !.last_login_at = TimeAt(now)]
                     token == CreateAccessToken(user.username)
                 IN /\ users' = (users \ {u \in users : u.id = user.id}) \cup {user}
                    /\ held' = [held EXCEPT ![username] = token]
                    /\ issued' = [issued EXCEPT ![username] = user.id]
                    /\ Respond("Login", StatusOK, "", TRUE, token,
                               LoginFacts(username, password))

\* Login at statement granularity.  Lines 71-89: binding, AuthenticateUser
\* (which loads the whole row) and the is_active test.
LoginAuthenticate(username, password) ==
    /\ serverUp
    /\ \E i \in 1..MaxFlight : flight[i] = NoFlight
    /\ UNCHANGED <<users, nextUserId, settings, tasks, held, now, created, exec, serverUp>>
    /\ UNCHANGED <<saved, poll, issued, gate>>
    /\ IF username = "" \/ password = ""
       THEN /\ UNCHANGED flight
            /\ Respond("Login", StatusBadRequest, "binding", TRUE, NoToken,
                       LoginFacts(username, password))
       ELSE LET a == AuthenticateUser(username, password) IN
            IF ~a.ok
            THEN /\ UNCHANGED flight
                 /\ Respond("Login", StatusUnauthorized, "Invalid username or password",
                            TRUE, NoToken, LoginFacts(username, password))
            ELSE IF ~a.user.is_active
            THEN /\ UNCHANGED flight
                 /\ Respond("Login", StatusUnauthorized,
                            "Account is inactive. Please contact administrator.",
                            TRUE, NoToken, LoginFacts(username, password))
            ELSE /\ flight' = [flight EXCEPT ![FreeSlot] =
                                   [NoFlight EXCEPT !.op = "Login", !.user = a.user,
                                                    !.username = username,
                                                    !.entitled = LoginFacts(username, password)]]
                 /\ UNCHANGED resp

\* Lines 91-109: db.Save(&user) writes every column of the row loaded by
\* AuthenticateUser (and inserts the row when no row has its id); a failed
\* Save is only logged.  Then the token is created and answered.
LoginSave(i) ==
    /\ serverUp
    /\ flight[i].op = "Login"
    /\ UNCHANGED <<nextUserId, settings, tasks, now, created, exec, serverUp>>
    /\ UNCHANGED <<saved, poll, gate>>
    /\ flight' = [flight EXCEPT ![i] = NoFlight]
    /\ LET f == flight[i]
           user == [f.user EXCEPT !.last_login_at = TimeAt(now)]
           token == CreateAccessToken(user.username)
       IN /\ users' = IF \E u \in users : u.username = user.username /\ u.id # user.id
                      THEN users
                      ELSE {u \in users : u.id # user.id} \cup {user}
          /\ held' = [held EXCEPT ![f.username] = token]
          /\ issued' = [issued EXCEPT ![f.username] = user.id]
          /\ Respond("Login", StatusOK, "", TRUE, token, f.entitled)

-----------------------------------------------------------------------------
(* internal/automation/handler.go: settings *)

SettingsOf(userId) ==
    IF \E s \in settings : s.user_id = userId
    THEN CHOOSE s \in settings : s.user_id = userId
    ELSE [user_id |-> 0, website_url |-> "", api_key |-> "", auth_user |-> ""]

HasSettings(userId) == \E s \in settings : s.user_id = userId

BodyOf(row) ==
    [website_url |-> row.website_url, api_key |-> row.api_key, auth_user |-> row.auth_user]

\* The record of answered UpdateSettings calls that matches the table.
SavedRows == [id \in 1..MaxUsers |-> BodyOf(SettingsOf(id))]

SimSettings == [website_url |-> "http://panel", api_key |-> "test", auth_user |-> "test"]

LiveSettings == [website_url |-> "http://panel", api_key |-> "test", auth_user |-> "live"]

SettingsRequests == {SimSettings, LiveSettings, [LiveSettings EXCEPT !.api_key = ""]}

\* Lines 628-642: binding and the lookup of the user's row.
UpdateSettings(h, req) ==
    /\ serverUp
    /\ \E i \in 1..MaxFlight : flight[i] = NoFlight
    /\ UNCHANGED <<users, nextUserId, settings, tasks, held, now, created, exec, serverUp>>
    /\ UNCHANGED <<saved, poll, issued, gate>>
    /\ LET a == Chain("automation", h) IN
       IF a.code # StatusOK
       THEN /\ UNCHANGED flight
            /\ Respond("UpdateSettings", a.code, a.error, FALSE, NoToken, HeaderFacts(h))
       ELSE IF req.website_url = "" \/ req.api_key = "" \/ req.auth_user = ""
       THEN /\ UNCHANGED flight
            /\ Respond("UpdateSettings", StatusBadRequest, "binding", TRUE, NoToken, HeaderFacts(h))
       ELSE /\ flight' = [flight EXCEPT ![FreeSlot] =
                              [NoFlight EXCEPT !.op = "UpdateSettings", !.user = a.user,
                                               !.body = req, !.found = HasSettings(a.user.id),
                                               !.entitled = HeaderFacts(h)]]
            /\ UNCHANGED resp

\* Variant: user_settings.user_id has no unique index.
UpdateSettingsSaveNoIndex(i) ==
    /\ serverUp
    /\ flight[i].op = "UpdateSettings"
    /\ UNCHANGED <<users, nextUserId, tasks, held, now, created, exec, serverUp, poll, issued, gate>>
    /\ flight' = [flight EXCEPT ![i] = NoFlight]
    /\ LET f == flight[i]
           row == [user_id |-> f.user.id] @@ f.body
       IN /\ settings' = (IF f.found THEN {s \in settings : s.user_id # f.user.id} ELSE settings)
                           \cup {row}
          /\ saved' = [saved EXCEPT ![f.user.id] = f.body]
          /\ RespondWith("UpdateSettings", StatusOK, "Settings updated successfully", TRUE,
                         NoToken, f.entitled, [NoExtra EXCEPT !.requester = f.user.id])

\* Lines 644-668: db.Create when the lookup found no row (the unique index
\* on user_id rejects it if a row has appeared since), db.Save of the loaded
\* row otherwise; then the answer.
UpdateSettingsSave(i) ==
    /\ serverUp
    /\ flight[i].op = "UpdateSettings"
    /\ UNCHANGED <<users, nextUserId, tasks, held, now, created, exec, serverUp, poll, issued, gate>>
    /\ flight' = [flight EXCEPT ![i] = NoFlight]
    /\ LET f == flight[i]
           row == [user_id |-> f.user.id] @@ f.body
       IN IF ~f.found /\ HasSettings(f.user.id)
          THEN /\ UNCHANGED <<settings, saved>>
               /\ RespondWith("UpdateSettings", StatusInternalServerError,
                              "Failed to create settings", TRUE, NoToken, f.entitled,
                              [NoExtra EXCEPT !.requester = f.user.id])
          ELSE /\ settings' = {s \in settings : s.user_id # f.user.id} \cup {row}
               /\ saved' = [saved EXCEPT ![f.user.id] = f.body]
               /\ RespondWith("UpdateSettings", StatusOK, "Settings updated successfully", TRUE,
                              NoToken, f.entitled, [NoExtra EXCEPT !.requester = f.user.id])

-----------------------------------------------------------------------------
(* internal/automation/handler.go: CreateTask *)

\* Requests are drawn from the combinations that exercise distinct paths: the
\* create call reads package, the lines lookup reads username, extend_package
\* reads both; a request whose binding fails is rejected whatever else it holds.
TaskRequests ==
    { [name |-> "create_account", target_website |-> "http://panel", username |-> "line_user", package |-> 101],
      [name |-> "create_account", target_website |-> "http://panel", username |-> "", package |-> 9600000],
      [name |-> "find_account", target_website |-> "http://panel", username |-> "line_user", package |-> 0],
      [name |-> "find_account", target_website |-> "http://panel", username |-> "", package |-> 0],
      [name |-> "extend_package", target_website |-> "http://panel", username |-> "line_user", package |-> 9600000],
      [name |-> "extend_package", target_website |-> "http://panel", username |-> "", package |-> 101],
      [name |-> "delete_account", target_website |-> "http://panel", username |-> "line_user", package |-> 101],
      [name |-> "", target_website |-> "http://panel", username |-> "line_user", package |-> 101],
      [name |-> "find_account", target_website |-> "", username |-> "line_user", package |-> 0] }

\* A goroutine: its position and locals, and on record the calls it made,
\* the last HTTP reply it read, what its lookup returned ("lookup", "found")
\* and the line id it passed to the renew call.
NoExec == [pc |-> "none", req |-> NoRequest, client |-> NoClient, task |-> NoTask,
           line |-> NoLine, started |-> 0, http |-> NoCalls, sim |-> NoCalls,
           launches |-> 0, panicked |-> FALSE,
           reply |-> NoReply, lookup |-> "", found |-> <<>>, renewed |-> ""]

\* Variant: the row is inserted before the settings are looked up.
CreateTaskInsertFirst(h, req) ==
    /\ serverUp
    /\ UNCHANGED rest
    /\ UNCHANGED <<users, nextUserId, settings, held, now, serverUp>>
    /\ LET a == Chain("automation", h) IN
       IF a.code # StatusOK
       THEN /\ UNCHANGED <<tasks, created, exec>>
            /\ Respond("CreateTask", a.code, a.error, FALSE, NoToken, HeaderFacts(h))
       ELSE IF req.name = "" \/ req.target_website = ""
       THEN /\ UNCHANGED <<tasks, created, exec>>
            /\ Respond("CreateTask", StatusBadRequest, "Invalid request format",
                       TRUE, NoToken, HeaderFacts(h))
       ELSE LET st == SettingsOf(a.user.id)
                apiClient == NewAPIClient(st.website_url, st.api_key, st.auth_user)
                task == [user_id |-> a.user.id, name |-> req.name, status |-> "pending",
                         target_website |-> req.target_website, result |-> NoResult,
                         completed_at |-> NullTime]
            IN /\ Len(tasks) < MaxTasks
               /\ tasks' = Append(tasks, task)
               /\ IF ~HasSettings(a.user.id)
                  THEN /\ UNCHANGED <<created, exec>>
                       /\ Respond("CreateTask", StatusNotFound, "Settings not found", TRUE,
                                  NoToken, HeaderFacts(h))
                  ELSE /\ created' = Append(created, [pc |-> "respond", task |-> task, code |-> 0,
                                                      body |-> NoTask, raced |-> FALSE])
                       /\ exec' = Append(exec, [NoExec EXCEPT !.pc = "start", !.req = req,
                                                              !.client = apiClient, !.launches = 1])
                       /\ Respond("CreateTask", 0, "", TRUE, NoToken, HeaderFacts(h))

\* Lines 34-94: everything up to and including the go statement.
CreateTask(h, req) ==
    /\ serverUp
    /\ UNCHANGED rest
    /\ UNCHANGED <<users, nextUserId, settings, held, now, serverUp>>
    /\ LET a == Chain("automation", h) IN
       IF a.code # StatusOK
       THEN /\ UNCHANGED <<tasks, created, exec>>
            /\ Respond("CreateTask", a.code, a.error, FALSE, NoToken, HeaderFacts(h))
       ELSE IF req.name = "" \/ req.target_website = ""
       THEN /\ UNCHANGED <<tasks, created, exec>>
            /\ Respond("CreateTask", StatusBadRequest,
                       IF req.target_website = ""
                       THEN "Panel URL is not configured. Please go to Settings and configure your Panel URL first."
                       ELSE "Invalid request format",
                       TRUE, NoToken, HeaderFacts(h))
       ELSE IF ~HasSettings(a.user.id)
       THEN /\ UNCHANGED <<tasks, created, exec>>
            /\ Respond("CreateTask", StatusNotFound, "Settings not found", TRUE, NoToken,
                       HeaderFacts(h))
       ELSE LET st == SettingsOf(a.user.id)
                apiClient == NewAPIClient(st.website_url, st.api_key, st.auth_user)
                task == [user_id |-> a.user.id, name |-> req.name, status |-> "pending",
                         target_website |-> req.target_website, result |-> NoResult,
                         completed_at |-> NullTime]
            IN /\ Len(tasks) < MaxTasks
               /\ tasks' = Append(tasks, task)
               /\ created' = Append(created, [pc |-> "respond", task |-> task, code |-> 0,
                                              body |-> NoTask, raced |-> FALSE])
               /\ exec' = Append(exec, [NoExec EXCEPT !.pc = "start", !.req = req,
                                                      !.client = apiClient, !.launches = 1])
               /\ Respond("CreateTask", 0, "", TRUE, NoToken, HeaderFacts(h))

\* Variant: the handler re-reads the row before serializing it.
CreateTaskRespondReread(t) ==
    /\ serverUp
    /\ UNCHANGED rest
    /\ created[t].pc = "respond"
    /\ created' = [created EXCEPT ![t] = [@ EXCEPT !.pc = "done", !.code = StatusCreated,
                                                   !.body = tasks[t],
                                                   !.raced = tasks[t].status # "pending"]]
    /\ UNCHANGED <<users, nextUserId, settings, tasks, held, now, exec, resp, serverUp>>

\* Line 96: c.JSON(http.StatusCreated, task) serializes the handler's own copy.
CreateTaskRespond(t) ==
    /\ serverUp
    /\ UNCHANGED rest
    /\ created[t].pc = "respond"
    /\ created' = [created EXCEPT ![t] = [@ EXCEPT !.pc = "done", !.code = StatusCreated,
                                                   !.body = created[t].task,
                                                   !.raced = tasks[t].status # "pending"]]
    /\ UNCHANGED <<users, nextUserId, settings, tasks, held, now, exec, resp, serverUp>>

-----------------------------------------------------------------------------
(* internal/automation/handler.go: executeTask *)

Bump(calls, op) == [calls EXCEPT ![op] = @ + 1]

\* Variant: the renew step does not look at the mode.
IssueRenewUnchecked(e, op) ==
    IF IsSimulationMode(e.client) /\ op # "renew"
    THEN [e EXCEPT !.pc = op, !.sim = Bump(@, op)]
    ELSE [e EXCEPT !.pc = op, !.http = Bump(@, op)]

\* Issue a panel call: the simulated one in simulation mode, the HTTP one otherwise.
Issue(e, op) ==
    IF IsSimulationMode(e.client)
    THEN [e EXCEPT !.pc = op, !.sim = Bump(@, op)]
    ELSE [e EXCEPT !.pc = op, !.http = Bump(@, op)]

\* The goroutine returned: its locals are gone; the client it was given and
\* the call counts remain on record.
Finish(e, task) ==
    [NoExec EXCEPT !.pc = "done", !.client = e.client, !.http = e.http, !.sim = e.sim,
                   !.launches = e.launches, !.reply = e.reply, !.lookup = e.lookup,
                   !.found = e.found, !.renewed = e.renewed]

\* The goroutine read the answer to an HTTP call (none in simulation mode).
Got(e, out) == IF IsSimulationMode(e.client) THEN e ELSE [e EXCEPT !.reply = out]

\* Variant: the goroutine marks the row "running" when it starts, as the
\* comment on AutomationTask.Status documents.
ExecStartRunning(t) ==
    /\ serverUp
    /\ UNCHANGED rest
    /\ exec[t].pc = "start"
    /\ tasks' = [tasks EXCEPT ![t] = [@ EXCEPT !.status = "running"]]
    /\ LET e == [exec[t] EXCEPT !.task = tasks'[t], !.started = now] IN
       exec' = [exec EXCEPT ![t] =
                    CASE e.task.name = "create_account" -> Issue(e, "create")
                      [] e.task.name = "find_account" -> Issue(e, "lines")
                      [] e.task.name = "extend_package" -> Issue(e, "lines")
                      [] OTHER -> Finish(e, e.task)]
    /\ UNCHANGED <<users, nextUserId, settings, held, now, created, resp, serverUp>>

\* Lines 126-169 / 236-240 / 301-305: load the row, pick the mode, dispatch on
\* task.Name and start the first panel call.  No case matches another name.
ExecStart(t) ==
    /\ serverUp
    /\ UNCHANGED rest
    /\ exec[t].pc = "start"
    /\ LET e == [exec[t] EXCEPT !.task = tasks[t], !.started = now] IN
       exec' = [exec EXCEPT ![t] =
                    CASE e.task.name = "create_account" -> Issue(e, "create")
                      [] e.task.name = "find_account" -> Issue(e, "lines")
                      [] e.task.name = "extend_package" -> Issue(e, "lines")
                      [] OTHER -> Finish(e, e.task)]
    /\ UNCHANGED <<users, nextUserId, settings, tasks, held, now, created, resp, serverUp>>

\* Variant: a failed create call is retried once.
ExecCreateDoneRetry(t) ==
    /\ serverUp
    /\ UNCHANGED rest
    /\ exec[t].pc = "create"
    /\ \E out \in PanelReplies :
         LET e == Got(exec[t], out)
             r == IF IsSimulationMode(e.client)
                  THEN SimulateCreateAccount(e.client, e.req)
                  ELSE CreateAccount(e.client, e.req, out)
             final == IF r.err
                      THEN FailTask(e.task, r.msg, e.started)
                      ELSE CompleteTask(e.task, <<r.value.line_id>>, {r.value.expire_year}, e.started)
         IN IF r.err /\ e.http.create + e.sim.create < 2
            THEN /\ tasks' = tasks
                 /\ exec' = [exec EXCEPT ![t] = Issue(e, "create")]
            ELSE /\ tasks' = [tasks EXCEPT ![t] = final]
                 /\ exec' = [exec EXCEPT ![t] = Finish(e, final)]
    /\ UNCHANGED <<users, nextUserId, settings, held, now, created, resp, serverUp>>

\* Lines 171-229: the create call returned.
ExecCreateDone(t) ==
    /\ serverUp
    /\ UNCHANGED rest
    /\ exec[t].pc = "create"
    /\ \E out \in PanelReplies :
         LET e == Got(exec[t], out)
             r == IF IsSimulationMode(e.client)
                  THEN SimulateCreateAccount(e.client, e.req)
                  ELSE CreateAccount(e.client, e.req, out)
             final == IF r.err
                      THEN FailTask(e.task, r.msg, e.started)
                      ELSE CompleteTask(e.task, <<r.value.line_id>>, {r.value.expire_year}, e.started)
         IN /\ tasks' = [tasks EXCEPT ![t] = final]
            /\ exec' = [exec EXCEPT ![t] = Finish(e, final)]
    /\ UNCHANGED <<users, nextUserId, settings, held, now, created, resp, serverUp>>

LineIds(lines) == [i \in DOMAIN lines |-> lines[i].line_id]

LineYears(lines) == {lines[i].expire_year : i \in DOMAIN lines}

\* Variant: the last line returned is renewed.
PickLineLast(lines) == lines[Len(lines)]

\* Line 357: line := lines[0]
PickLine(lines) == lines[1]

\* Lines 242-293 (find_account) and 307-370 (extend_package): the lines
\* lookup returned.
ExecLinesDone(t) ==
    /\ serverUp
    /\ UNCHANGED rest
    /\ exec[t].pc = "lines"
    /\ \E out \in PanelReplies, draw \in 0..2 :
         LET e0 == Got(exec[t], out)
             r == IF IsSimulationMode(e0.client)
                  THEN SimulateFindAccount(e0.client, e0.req.username, draw)
                  ELSE FindAccount(e0.client, e0.req.username, out)
             lines == r.value.lines
             e == [e0 EXCEPT !.lookup = IF r.err THEN "failed" ELSE "returned",
                             !.found = LineIds(lines)]
         IN IF r.err
            THEN /\ tasks' = [tasks EXCEPT ![t] = FailTask(e.task, r.msg, e.started)]
                 /\ exec' = [exec EXCEPT ![t] = Finish(e, tasks'[t])]
            ELSE IF e.task.name = "find_account"
            THEN /\ tasks' = [tasks EXCEPT ![t] =
                                 CompleteTask(e.task, LineIds(lines), LineYears(lines), e.started)]
                 /\ exec' = [exec EXCEPT ![t] = Finish(e, tasks'[t])]
            ELSE IF Len(lines) = 0
            THEN /\ tasks' = [tasks EXCEPT ![t] =
                                 FailTask(e.task, <<"No accounts found with the provided username">>,
                                          e.started)]
                 /\ exec' = [exec EXCEPT ![t] = Finish(e, tasks'[t])]
            ELSE /\ tasks' = tasks
                 /\ exec' = [exec EXCEPT ![t] =
                                Issue([e EXCEPT !.line = PickLine(lines),
                                                !.renewed = PickLine(lines).line_id], "renew")]
    /\ UNCHANGED <<users, nextUserId, settings, held, now, created, resp, serverUp>>

\* Lines 372-430: the renew call returned.
ExecRenewDone(t) ==
    /\ serverUp
    /\ UNCHANGED rest
    /\ exec[t].pc = "renew"
    /\ \E out \in PanelReplies :
         LET e == Got(exec[t], out)
             r == IF IsSimulationMode(e.client)
                  THEN SimulateExtendPackage(e.client, e.line.line_id, e.req)
                  ELSE ExtendPackage(e.client, e.line.line_id, e.req, out)
             final == IF r.err
                      THEN FailTask(e.task, r.msg, e.started)
                      ELSE CompleteTask(e.task, <<r.value.line_id>>, {r.value.expire_year}, e.started)
         IN /\ tasks' = [tasks EXCEPT ![t] = final]
            /\ exec' = [exec EXCEPT ![t] = Finish(e, final)]
    /\ UNCHANGED <<users, nextUserId, settings, held, now, created, resp, serverUp>>

Running == {"start", "create", "lines", "renew"}

\* Variant: no deferred recover(); the panic unwinds the goroutine and the
\* Go runtime exits the process.
ExecPanicUnrecovered(t) ==
    /\ serverUp
    /\ UNCHANGED rest
    /\ exec[t].pc \in Running
    /\ tasks' = tasks
    /\ exec' = [exec EXCEPT ![t] = [Finish(@, tasks[t]) EXCEPT !.panicked = TRUE]]
    /\ serverUp' = FALSE
    /\ UNCHANGED <<users, nextUserId, settings, held, now, created, resp>>

\* Lines 102-124: a panic anywhere in the goroutine is recovered; the handler
\* re-reads the row and saves it as failed.
ExecPanic(t) ==
    /\ serverUp
    /\ UNCHANGED rest
    /\ exec[t].pc \in Running
    /\ tasks' = [tasks EXCEPT ![t] = RecoverTask(tasks[t], now)]
    /\ exec' = [exec EXCEPT ![t] = [Finish(@, tasks'[t]) EXCEPT !.panicked = TRUE]]
    /\ serverUp' = TRUE
    /\ UNCHANGED <<users, nextUserId, settings, held, now, created, resp>>

-----------------------------------------------------------------------------
(* Task machinery: task creation and background execution, started from the *)
(* states in which the administrator has logged in and has saved no         *)
(* settings, simulation settings or live settings.                          *)

\* What Login("admin", "admin") at time 0 and, in two of the three states,
\* one UpdateSettings leave behind.
InitTasks ==
    /\ now = 0
    /\ users = {[DefaultAdmin EXCEPT !.last_login_at = TimeAt(0)]}
    /\ nextUserId = 2
    /\ settings \in {{}, {[user_id |-> 1] @@ SimSettings}, {[user_id |-> 1] @@ LiveSettings}}
    /\ tasks = <<>>
    /\ held = [u \in Usernames |-> IF u = "admin" THEN CreateAccessToken("admin") ELSE NoToken]
    /\ created = <<>>
    /\ exec = <<>>
    /\ resp = NoResp
    /\ serverUp = TRUE
    /\ flight = NoFlights
    /\ saved = SavedRows
    /\ poll = NoPoll
    /\ issued = [NoIssued EXCEPT !["admin"] = 1]
    /\ gate = NoGate

TaskHeaders == {NoHeader, [parts |-> 2, scheme |-> "Bearer", token |-> held["admin"]]}

NextTasks ==
    \/ \E h \in TaskHeaders, r \in TaskRequests : CreateTask(h, r)
    \/ \E t \in DOMAIN tasks : CreateTaskRespond(t)
    \/ \E t \in DOMAIN tasks : ExecStart(t)
    \/ \E t \in DOMAIN tasks : ExecCreateDone(t)
    \/ \E t \in DOMAIN tasks : ExecLinesDone(t)
    \/ \E t \in DOMAIN tasks : ExecRenewDone(t)
    \/ \E t \in DOMAIN tasks : ExecPanic(t)

SpecTasks == InitTasks /\ [][NextTasks]_vars

\* The Go scheduler runs every runnable goroutine and every panel call
\* returns: the HTTP client has a 30 s timeout.
Fairness ==
    \A t \in 1..MaxTasks :
        /\ WF_vars(t \in DOMAIN tasks /\ CreateTaskRespond(t))
        /\ WF_vars(t \in DOMAIN tasks /\ ExecStart(t))
        /\ WF_vars(t \in DOMAIN tasks /\ ExecCreateDone(t))
        /\ WF_vars(t \in DOMAIN tasks /\ ExecLinesDone(t))
        /\ WF_vars(t \in DOMAIN tasks /\ ExecRenewDone(t))

FairSpecTasks == SpecTasks /\ Fairness

-----------------------------------------------------------------------------
(* internal/auth/handler.go: protected and admin handlers *)

GetUserStatus(h) ==
    /\ serverUp
    /\ UNCHANGED rest
    /\ UNCHANGED <<users, nextUserId, settings, tasks, held, now, created, exec, serverUp>>
    /\ LET a == Chain("auth", h) IN
       IF a.code # StatusOK
       THEN Respond("GetUserStatus", a.code, a.error, FALSE, NoToken, HeaderFacts(h))
       ELSE RespondWith("GetUserStatus", StatusOK, "", TRUE, NoToken, HeaderFacts(h),
                        [NoExtra EXCEPT !.requester = a.user.id,
                                        !.subject = issued[a.user.username]])

GetSettings(h) ==
    /\ serverUp
    /\ UNCHANGED rest
    /\ UNCHANGED <<users, nextUserId, settings, tasks, held, now, created, exec, serverUp>>
    /\ LET a == Chain("automation", h) IN
       IF a.code # StatusOK
       THEN Respond("GetSettings", a.code, a.error, FALSE, NoToken, HeaderFacts(h))
       ELSE RespondWith("GetSettings", StatusOK, "", TRUE, NoToken, HeaderFacts(h),
                        [NoExtra EXCEPT !.requester = RequesterId(h),
                                        !.body = BodyOf(SettingsOf(a.user.id))])

CreateUserRequests == [username : Usernames, password : {"", "pw"}, is_admin : BOOLEAN]

UpdateUserRequests == [password : {"", "pw"}, is_admin : BOOLEAN, is_active : BOOLEAN]

CreateUser(h, req) ==
    /\ serverUp
    /\ UNCHANGED rest
    /\ BodyMatters("admin", h, req, CreateUserRequests)
    /\ UNCHANGED <<settings, tasks, held, now, created, exec, serverUp>>
    /\ LET a == Chain("admin", h) IN
       IF a.code # StatusOK
       THEN /\ UNCHANGED <<users, nextUserId>>
            /\ RespondWith("CreateUser", a.code, a.error, FALSE, NoToken, HeaderFacts(h), AdminExtra(h))
       ELSE IF req.username = "" \/ req.password = ""
       THEN /\ UNCHANGED <<users, nextUserId>>
            /\ RespondWith("CreateUser", StatusBadRequest, "binding", TRUE, NoToken, HeaderFacts(h), AdminExtra(h))
       ELSE IF UserByName(req.username) # NoUser
       THEN /\ UNCHANGED <<users, nextUserId>>
            /\ RespondWith("CreateUser", StatusBadRequest, "Username already registered", TRUE,
                       NoToken, HeaderFacts(h), AdminExtra(h))
       ELSE /\ nextUserId <= MaxUsers
            /\ users' = users \cup {[id |-> nextUserId, username |-> req.username,
                                     hashed_password |-> HashPassword(req.password),
                                     is_active |-> TRUE, is_admin |-> req.is_admin,
                                     last_login_at |-> NullTime]}
            /\ nextUserId' = nextUserId + 1
            /\ RespondWith("CreateUser", StatusCreated, "User created successfully", TRUE,
                       NoToken, HeaderFacts(h), AdminExtra(h))

\* CreateUser at statement granularity.  Lines 113-137: binding, the lookup
\* of the username, the password hash.
CreateUserCheck(h, req) ==
    /\ serverUp
    /\ \E i \in 1..MaxFlight : flight[i] = NoFlight
    /\ UNCHANGED <<users, nextUserId, settings, tasks, held, now, created, exec, serverUp>>
    /\ UNCHANGED <<saved, poll, issued, gate>>
    /\ LET a == Chain("admin", h) IN
       IF a.code # StatusOK
       THEN /\ UNCHANGED flight
            /\ RespondWith("CreateUser", a.code, a.error, FALSE, NoToken, HeaderFacts(h),
                           AdminExtra(h))
       ELSE IF req.username = "" \/ req.password = ""
       THEN /\ UNCHANGED flight
            /\ RespondWith("CreateUser", StatusBadRequest, "binding", TRUE, NoToken,
                           HeaderFacts(h), AdminExtra(h))
       ELSE IF UserByName(req.username) # NoUser
       THEN /\ UNCHANGED flight
            /\ RespondWith("CreateUser", StatusBadRequest, "Username already registered", TRUE,
                           NoToken, HeaderFacts(h), AdminExtra(h))
       ELSE /\ flight' = [flight EXCEPT ![FreeSlot] =
                              [NoFlight EXCEPT !.op = "CreateUser", !.user = a.user,
                                               !.username = req.username,
                                               !.password = req.password,
                                               !.is_admin = req.is_admin,
                                               !.entitled = HeaderFacts(h),
                                               !.admin = AdminFacts(h)]]
            /\ UNCHANGED resp

\* Variant: users.username has no unique index.
CreateUserInsertNoIndex(i) ==
    /\ serverUp
    /\ flight[i].op = "CreateUser"
    /\ UNCHANGED <<settings, tasks, held, now, created, exec, serverUp, saved, poll, issued, gate>>
    /\ flight' = [flight EXCEPT ![i] = NoFlight]
    /\ LET f == flight[i] IN
       /\ users' = users \cup {[id |-> nextUserId, username |-> f.username,
                                hashed_password |-> HashPassword(f.password),
                                is_active |-> TRUE, is_admin |-> f.is_admin,
                                last_login_at |-> NullTime]}
       /\ nextUserId' = nextUserId + 1
       /\ RespondWith("CreateUser", StatusCreated, "User created successfully", TRUE,
                      NoToken, f.entitled, [NoExtra EXCEPT !.admin = f.admin])

\* Lines 139-157: db.Create, which the unique index on username rejects if
\* the name has been taken since the lookup; then the answer.
CreateUserInsert(i) ==
    /\ serverUp
    /\ flight[i].op = "CreateUser"
    /\ UNCHANGED <<settings, tasks, held, now, created, exec, serverUp, saved, poll, issued, gate>>
    /\ flight' = [flight EXCEPT ![i] = NoFlight]
    /\ LET f == flight[i] IN
       IF UserByName(f.username) # NoUser
       THEN /\ UNCHANGED <<users, nextUserId>>
            /\ RespondWith("CreateUser", StatusInternalServerError, "Failed to create user",
                           TRUE, NoToken, f.entitled, [NoExtra EXCEPT !.admin = f.admin])
       ELSE /\ nextUserId <= MaxUsers
            /\ users' = users \cup {[id |-> nextUserId, username |-> f.username,
                                     hashed_password |-> HashPassword(f.password),
                                     is_active |-> TRUE, is_admin |-> f.is_admin,
                                     last_login_at |-> NullTime]}
            /\ nextUserId' = nextUserId + 1
            /\ RespondWith("CreateUser", StatusCreated, "User created successfully", TRUE,
                           NoToken, f.entitled, [NoExtra EXCEPT !.admin = f.admin])

GetUsers(h) ==
    /\ serverUp
    /\ UNCHANGED rest
    /\ UNCHANGED <<users, nextUserId, settings, tasks, held, now, created, exec, serverUp>>
    /\ LET a == Chain("admin", h) IN
       IF a.code # StatusOK
       THEN RespondWith("GetUsers", a.code, a.error, FALSE, NoToken, HeaderFacts(h), AdminExtra(h))
       ELSE RespondWith("GetUsers", StatusOK, "", TRUE, NoToken, HeaderFacts(h), AdminExtra(h))

UpdateUser(h, userID, req) ==
    /\ serverUp
    /\ UNCHANGED rest
    /\ BodyMatters("admin", h, <<userID, req>>, (1..MaxUsers) \X UpdateUserRequests)
    /\ UNCHANGED <<nextUserId, settings, tasks, held, now, created, exec, serverUp>>
    /\ LET a == Chain("admin", h)
           user == UserById(userID)
       IN
       IF a.code # StatusOK
       THEN /\ UNCHANGED users
            /\ RespondWith("UpdateUser", a.code, a.error, FALSE, NoToken, HeaderFacts(h), AdminExtra(h))
       ELSE IF user = NoUser
       THEN /\ UNCHANGED users
            /\ RespondWith("UpdateUser", StatusNotFound, "User not found", TRUE, NoToken,
                       HeaderFacts(h), AdminExtra(h))
       ELSE LET updated == [user EXCEPT
                               !.hashed_password = IF req.password # ""
                                                   THEN HashPassword(req.password) ELSE @,
                               !.is_admin = req.is_admin,
                               !.is_active = req.is_active]
            IN /\ users' = (users \ {u \in users : u.id = userID}) \cup {updated}
               /\ RespondWith("UpdateUser", StatusOK, "User updated successfully", TRUE, NoToken,
                          HeaderFacts(h), AdminExtra(h))

\* The keys a JSON body of PUT /admin/users/:id may hold; the page's API
\* client declares all three optional.
UpdateUserBodies ==
    { [password |-> "pw", is_admin |-> TRUE, is_active |-> TRUE],
      [password |-> "", is_admin |-> FALSE, is_active |-> TRUE],
      [is_admin |-> TRUE, is_active |-> FALSE],
      [password |-> "pw"],
      [is_admin |-> TRUE],
      [is_active |-> TRUE] }

\* c.ShouldBindJSON(&req) for UpdateUserRequest: no field is required, a key
\* the body lacks leaves the Go zero value.
BindUpdateUserRequest(body) ==
    [password |-> IF "password" \in DOMAIN body THEN body.password ELSE "",
     is_admin |-> IF "is_admin" \in DOMAIN body THEN body.is_admin ELSE FALSE,
     is_active |-> IF "is_active" \in DOMAIN body THEN body.is_active ELSE FALSE]

\* UpdateUser as it is called over HTTP, with the body as sent.
UpdateUserPut(h, userID, body) == UpdateUser(h, userID, BindUpdateUserRequest(body))

DeleteUser(h, userID) ==
    /\ serverUp
    /\ UNCHANGED rest
    /\ BodyMatters("admin", h, userID, 1..MaxUsers)
    /\ UNCHANGED <<nextUserId, settings, tasks, held, now, created, exec, serverUp>>
    /\ LET a == Chain("admin", h) IN
       IF a.code # StatusOK
       THEN /\ UNCHANGED users
            /\ RespondWith("DeleteUser", a.code, a.error, FALSE, NoToken, HeaderFacts(h), AdminExtra(h))
       ELSE IF UserById(userID) = NoUser
       THEN /\ UNCHANGED users
            /\ RespondWith("DeleteUser", StatusNotFound, "User not found", TRUE, NoToken,
                       HeaderFacts(h), AdminExtra(h))
       ELSE /\ users' = {u \in users : u.id # userID}
            /\ RespondWith("DeleteUser", StatusOK, "User deleted successfully", TRUE, NoToken,
                       HeaderFacts(h), AdminExtra(h))

-----------------------------------------------------------------------------
(* internal/automation/handler.go: task reads *)

GetUserTasks(h) ==
    /\ serverUp
    /\ UNCHANGED rest
    /\ UNCHANGED <<users, nextUserId, settings, tasks, held, now, created, exec, serverUp>>
    /\ LET a == Chain("automation", h) IN
       IF a.code # StatusOK
       THEN Respond("GetUserTasks", a.code, a.error, FALSE, NoToken, HeaderFacts(h))
       ELSE RespondWith("GetUserTasks", StatusOK, "", TRUE, NoToken, HeaderFacts(h),
                        [NoExtra EXCEPT !.requester = RequesterId(h),
                                        !.rows = {t \in DOMAIN tasks : tasks[t].user_id = a.user.id}])

\* Variant: the queries select on id alone.
TaskRowsAnyOwner(id, userId) == {t \in DOMAIN tasks : t = id}

\* SELECT ... FROM automation_tasks WHERE id = ? AND user_id = ?
TaskRows(id, userId) == {t \in DOMAIN tasks : t = id /\ tasks[t].user_id = userId}

\* Lines 564-622: a NULL result column is answered as {"success":false,"data":{}}.
ResultForResponse(row) ==
    IF ~row.result.present
    THEN [present |-> TRUE, success |-> FALSE, error |-> <<>>, data |-> <<>>]
    ELSE row.result

\* What GetTask answers to a request that passed the middleware as user u.
GetTaskReply(u, id) ==
    IF TaskRows(id, u.id) = {}
    THEN [code |-> StatusNotFound, error |-> "Task not found", rows |-> {},
          status |-> "", result |-> NoResult]
    ELSE [code |-> StatusOK, error |-> "", rows |-> TaskRows(id, u.id),
          status |-> tasks[id].status, result |-> ResultForResponse(tasks[id])]

GetTask(h, id) ==
    /\ serverUp
    /\ UNCHANGED rest
    /\ UNCHANGED <<users, nextUserId, settings, tasks, held, now, created, exec, serverUp>>
    /\ LET a == Chain("automation", h) IN
       IF a.code # StatusOK
       THEN Respond("GetTask", a.code, a.error, FALSE, NoToken, HeaderFacts(h))
       ELSE LET r == GetTaskReply(a.user, id) IN
            RespondWith("GetTask", r.code, r.error, TRUE, NoToken, HeaderFacts(h),
                        [NoExtra EXCEPT !.requester = RequesterId(h), !.arg = id,
                                        !.rows = r.rows])

-----------------------------------------------------------------------------
(* Overlapping requests: the administrator, logged in, sends CreateUser and *)
(* UpdateSettings requests that the server handles concurrently, a         *)
(* goroutine per request.                                                   *)

RaceHeaders == {NoHeader, [parts |-> 2, scheme |-> "Bearer", token |-> held["admin"]]}

RaceUserRequests == {r \in CreateUserRequests : r.password # "" /\ ~r.is_admin}

NextRaces ==
    \/ \E h \in RaceHeaders, r \in RaceUserRequests : CreateUserCheck(h, r)
    \/ \E i \in 1..MaxFlight : CreateUserInsert(i)
    \/ \E h \in RaceHeaders, r \in SettingsRequests : UpdateSettings(h, r)
    \/ \E i \in 1..MaxFlight : UpdateSettingsSave(i)
    \/ \E h \in RaceHeaders : GetSettings(h)

SpecRaces == InitTasks /\ [][NextRaces]_vars

-----------------------------------------------------------------------------
(* frontend/src/pages/Action.tsx: the page submits one task and polls it.   *)

PollHeader == [parts |-> 2, scheme |-> "Bearer", token |-> held["admin"]]

PollRequests == {r \in TaskRequests : r.name = "find_account" /\ r.username # ""
                                       /\ r.target_website # ""}

\* Lines 205-217 and 304-310: after createTask has resolved with the task's
\* id, setInterval and setTimeout are armed.
pollTaskCompletion(t) ==
    /\ poll.task = 0
    /\ created[t].pc = "done" /\ created[t].code = StatusCreated
    /\ poll' = [NoPoll EXCEPT !.task = t, !.interval = TRUE, !.timeout = TRUE]
    /\ UNCHANGED <<users, nextUserId, settings, tasks, held, now, created, exec, resp, serverUp,
                   flight, saved, issued, gate>>

\* Two seconds pass; the interval callback falls due if the interval is
\* still set.
PollClock ==
    /\ poll.task # 0 /\ poll.timeout /\ ~poll.due
    /\ poll.elapsed < PollTimeoutMs
    /\ poll' = [poll EXCEPT !.elapsed = @ + PollIntervalMs, !.due = poll.interval]
    /\ UNCHANGED <<users, nextUserId, settings, tasks, held, now, created, exec, resp, serverUp,
                   flight, saved, issued, gate>>

\* Lines 218-221: the interval callback sends automation.getTask(taskId).
PollSend ==
    /\ poll.interval /\ poll.due
    /\ poll.sent + Len(poll.replies) < MaxInflight
    /\ poll' = [poll EXCEPT !.due = FALSE, !.sent = @ + 1]
    /\ UNCHANGED <<users, nextUserId, settings, tasks, held, now, created, exec, resp, serverUp,
                   flight, saved, issued, gate>>

\* The server answers one poll through the middleware and GetTask, or the
\* request fails on the way.
PollServe ==
    /\ poll.sent > 0
    /\ \E lost \in BOOLEAN :
         LET a == Chain("automation", PollHeader)
             r == GetTaskReply(a.user, poll.task)
             answer == IF lost \/ ~serverUp \/ a.code # StatusOK \/ r.code # StatusOK
                       THEN [ok |-> FALSE, status |-> "", result |-> NoResult]
                       ELSE [ok |-> TRUE, status |-> r.status, result |-> r.result]
         IN poll' = [poll EXCEPT !.sent = @ - 1, !.replies = Append(@, answer)]
    /\ UNCHANGED <<users, nextUserId, settings, tasks, held, now, created, exec, resp, serverUp,
                   flight, saved, issued, gate>>

\* Lines 248-254 and 275-282: the error text shown for a result.
ShownError(result, fallback) ==
    LET errorMsg == IF result.error = <<>> THEN <<fallback>> ELSE result.error IN
    IF \E i \in DOMAIN errorMsg : errorMsg[i] \in {"<!DOCTYPE", "<html", "non-JSON error response"}
    THEN "The panel URL appears to be incorrect. Please check your settings."
    ELSE errorMsg[1]

\* Variant: the catch branch leaves the interval running.
PollResolveKeepsPolling(i) ==
    /\ i \in DOMAIN poll.replies
    /\ LET a == poll.replies[i]
           left == [poll EXCEPT !.replies = SubSeq(@, 1, i - 1) \o SubSeq(@, i + 1, Len(@))]
       IN poll' =
            IF ~a.ok
            THEN [left EXCEPT !.error = "Error checking task status", !.failed = TRUE]
            ELSE IF a.status = "completed"
            THEN IF a.result.success
                 THEN [left EXCEPT !.interval = FALSE, !.due = FALSE, !.output = TRUE,
                                   !.error = "", !.observed = TRUE]
                 ELSE [left EXCEPT !.interval = FALSE, !.due = FALSE, !.observed = TRUE,
                                   !.error = ShownError(a.result, "Failed")]
            ELSE IF a.status = "failed"
            THEN [left EXCEPT !.interval = FALSE, !.due = FALSE, !.observed = TRUE,
                              !.error = ShownError(a.result, "Task failed")]
            ELSE left
    /\ UNCHANGED <<users, nextUserId, settings, tasks, held, now, created, exec, resp, serverUp,
                   flight, saved, issued, gate>>

\* Lines 221-303: the continuation after await automation.getTask: one
\* answer (in any order of arrival) is handled.
PollResolve(i) ==
    /\ i \in DOMAIN poll.replies
    /\ LET a == poll.replies[i]
           left == [poll EXCEPT !.replies = SubSeq(@, 1, i - 1) \o SubSeq(@, i + 1, Len(@))]
       IN poll' =
            IF ~a.ok
            THEN [left EXCEPT !.interval = FALSE, !.due = FALSE,
                              !.error = "Error checking task status", !.failed = TRUE]
            ELSE IF a.status = "completed"
            THEN IF a.result.success
                 THEN [left EXCEPT !.interval = FALSE, !.due = FALSE, !.output = TRUE,
                                   !.error = "", !.observed = TRUE]
                 ELSE [left EXCEPT !.interval = FALSE, !.due = FALSE, !.observed = TRUE,
                                   !.error = ShownError(a.result, "Failed")]
            ELSE IF a.status = "failed"
            THEN [left EXCEPT !.interval = FALSE, !.due = FALSE, !.observed = TRUE,
                              !.error = ShownError(a.result, "Task failed")]
            ELSE left
    /\ UNCHANGED <<users, nextUserId, settings, tasks, held, now, created, exec, resp, serverUp,
                   flight, saved, issued, gate>>

\* Lines 307-310: five minutes after the session began the timeout callback
\* clears the interval and sets the error.
PollTimeout ==
    /\ poll.timeout /\ poll.elapsed >= PollTimeoutMs
    /\ poll' = [poll EXCEPT !.timeout = FALSE, !.interval = FALSE, !.due = FALSE,
                            !.error = "Task timed out"]
    /\ UNCHANGED <<users, nextUserId, settings, tasks, held, now, created, exec, resp, serverUp,
                   flight, saved, issued, gate>>

InitPoll == InitTasks /\ settings = {[user_id |-> 1] @@ SimSettings}

NextPoll ==
    \/ \E r \in PollRequests : tasks = <<>> /\ CreateTask(PollHeader, r)
    \/ \E t \in DOMAIN tasks : CreateTaskRespond(t)
    \/ \E t \in DOMAIN tasks : ExecStart(t)
    \/ \E t \in DOMAIN tasks : ExecLinesDone(t)
    \/ \E t \in DOMAIN tasks : ExecPanic(t)
    \/ \E t \in DOMAIN tasks : pollTaskCompletion(t)
    \/ PollClock
    \/ PollSend
    \/ PollServe
    \/ \E i \in 1..MaxInflight : PollResolve(i)
    \/ PollTimeout

SpecPoll == InitPoll /\ [][NextPoll]_vars

-----------------------------------------------------------------------------
(* Task reads by two users: the administrator has created "bob", both have  *)
(* logged in and saved simulation settings, and both submit lookups.        *)

Bob ==
    [id |-> 2, username |-> "bob", hashed_password |-> HashPassword("pw"),
     is_active |-> TRUE, is_admin |-> FALSE, last_login_at |-> TimeAt(0)]

InitReads ==
    /\ now = 0
    /\ users = {[DefaultAdmin EXCEPT !.last_login_at = TimeAt(0)], Bob}
    /\ nextUserId = 3
    /\ settings = {[user_id |-> 1] @@ SimSettings, [user_id |-> 2] @@ SimSettings}
    /\ tasks = <<>>
    /\ held = [u \in Usernames |-> CreateAccessToken(u)]
    /\ created = <<>>
    /\ exec = <<>>
    /\ resp = NoResp
    /\ serverUp = TRUE
    /\ flight = NoFlights
    /\ saved = SavedRows
    /\ poll = NoPoll
    /\ issued = [u \in Usernames |-> UserByName(u).id]
    /\ gate = NoGate

ReadHeaders ==
    {NoHeader} \cup {[parts |-> 2, scheme |-> "Bearer", token |-> held[u]] : u \in Usernames}

ReadRequests == {r \in TaskRequests : r.name = "find_account" /\ r.target_website # ""}

NextReads ==
    \/ \E h \in ReadHeaders, r \in ReadRequests : CreateTask(h, r)
    \/ \E t \in DOMAIN tasks : CreateTaskRespond(t)
    \/ \E t \in DOMAIN tasks : ExecStart(t)
    \/ \E t \in DOMAIN tasks : ExecLinesDone(t)
    \/ \E h \in ReadHeaders : GetUserTasks(h)
    \/ \E h \in ReadHeaders, id \in 1..MaxTasks : GetTask(h, id)

SpecReads == InitReads /\ [][NextReads]_vars

-----------------------------------------------------------------------------
(* Logins overlapping administration: the administrator and "bob" log in  *)
(* again while the administrator changes users; the server handles the     *)
(* requests concurrently, a goroutine per request.                          *)

NextLogin ==
    \/ \E u \in Usernames, p \in Passwords : LoginAuthenticate(u, p)
    \/ \E i \in 1..MaxFlight : LoginSave(i)
    \/ \E h \in ReadHeaders, id \in 1..MaxUsers, r \in UpdateUserRequests : UpdateUser(h, id, r)
    \/ \E h \in ReadHeaders : GetUserStatus(h)
    \/ \E h \in ReadHeaders : GetUsers(h)

SpecLogin == InitReads /\ [][NextLogin]_vars

-----------------------------------------------------------------------------
(* Account administration from a fresh database: users log in, and those   *)
(* who may create, change and delete users; every request is one step.     *)

NextAccounts ==
    \/ \E u \in Usernames, p \in Passwords : Login(u, p) /\ UNCHANGED gate
    \/ \E h \in ReadHeaders : GetUserStatus(h)
    \/ \E h \in ReadHeaders, r \in CreateUserRequests : CreateUser(h, r)
    \/ \E h \in ReadHeaders, id \in 1..MaxUsers, b \in UpdateUserBodies : UpdateUserPut(h, id, b)
    \/ \E h \in ReadHeaders, id \in 1..MaxUsers : DeleteUser(h, id)

SpecAccounts == Init /\ [][NextAccounts]_vars

-----------------------------------------------------------------------------
(* internal/middleware: the IP rate limiter, registered with r.Use before   *)
(* every route.  Requests are served concurrently; GetLimiter is a step per *)
(* critical section.  No time passes, so no bucket is refilled.             *)

\* The lowest free slot for a request that arrives.
FreeCall ==
    CHOOSE i \in 1..MaxCalls :
        gate.calls[i] = NoCall /\ \A j \in 1..(i - 1) : gate.calls[j] # NoCall

\* Lines 48-49 and 31-33: the middleware takes the client address and calls
\* GetLimiter, which reads the map under the read lock.
GetLimiter(ip) ==
    /\ serverUp
    /\ \E i \in 1..MaxCalls : gate.calls[i] = NoCall
    /\ gate' = [gate EXCEPT !.calls[FreeCall] =
                     [ip |-> ip, pc |-> IF gate.ips[ip] # 0 THEN "allow" ELSE "create",
                      limiter |-> gate.ips[ip]]]
    /\ UNCHANGED <<users, nextUserId, settings, tasks, held, now, created, exec, resp, serverUp,
                   flight, saved, poll, issued>>

\* Lines 35-40: no entry was read; under the write lock a new limiter is
\* made and stored, whatever the map holds by now.
GetLimiterStore(i) ==
    /\ serverUp
    /\ gate.calls[i].pc = "create"
    /\ LET ip == gate.calls[i].ip IN
       gate' = [gate EXCEPT !.limiters[ip] = Append(@, Burst),
                            !.ips[ip] = Len(gate.limiters[ip]) + 1,
                            !.calls[i].limiter = Len(gate.limiters[ip]) + 1,
                            !.calls[i].pc = "allow"]
    /\ UNCHANGED <<users, nextUserId, settings, tasks, held, now, created, exec, resp, serverUp,
                   flight, saved, poll, issued>>

\* Lines 51-58: limiter.Allow() takes a token if one is left; the request
\* then goes on to its route (here POST /auth/token) or is aborted with 429.
RateLimiterMiddleware(i, username, password) ==
    /\ serverUp
    /\ gate.calls[i].pc = "allow"
    /\ LET c == gate.calls[i] IN
       IF gate.limiters[c.ip][c.limiter] > 0
       THEN /\ gate' = [gate EXCEPT !.limiters[c.ip][c.limiter] = @ - 1,
                                    !.admitted[c.ip] = @ + 1,
                                    !.calls[i] = NoCall]
            /\ Login(username, password)
       ELSE /\ gate' = [gate EXCEPT !.calls[i] = NoCall]
            /\ UNCHANGED <<users, nextUserId, settings, tasks, held, now, created, exec,
                           serverUp, flight, saved, poll, issued>>
            /\ Respond("RateLimiter", StatusTooManyRequests, "Rate limit exceeded", FALSE,
                       NoToken, FALSE)

\* The busy address sends as many requests as it likes, any other address
\* at most MaxOther.
Sends(ip) ==
    ip # "10.0.0.1" =>
        gate.admitted[ip] + Cardinality({i \in 1..MaxCalls : gate.calls[i].ip = ip}) < MaxOther

NextLimiter ==
    \/ \E ip \in ClientIPs : Sends(ip) /\ GetLimiter(ip)
    \/ \E i \in 1..MaxCalls : GetLimiterStore(i)
    \/ \E i \in 1..MaxCalls : RateLimiterMiddleware(i, "admin", "admin")

SpecLimiter == Init /\ [][NextLimiter]_vars

-----------------------------------------------------------------------------
(* Tokens against the wall clock: logins and status requests as the clock   *)
(* advances minute by minute.                                               *)

Minute ==
    /\ now + 1 <= MaxMinutes
    /\ now' = now + 1
    /\ UNCHANGED rest
    /\ UNCHANGED <<users, nextUserId, settings, tasks, held, created, exec, resp, serverUp>>

NextClock ==
    \/ Login("admin", "admin") /\ UNCHANGED gate
    \/ \E h \in Headers : GetUserStatus(h)
    \/ \E h \in ReadHeaders, b \in UpdateUserBodies : UpdateUserPut(h, 1, b)
    \/ Minute

SpecClock == Init /\ [][NextClock]_vars

-----------------------------------------------------------------------------
(* cmd/main.go: server start *)

\* Variant: the default administrator is put back to its defaults on every
\* start.
createDefaultAdminUserReset ==
    /\ UNCHANGED rest
    /\ UNCHANGED <<settings, tasks, held, now, created, exec>>
    /\ serverUp' = TRUE
    /\ IF \E u \in users : u.username = "admin"
       THEN /\ users' = {u \in users : u.username # "admin"}
                         \cup {[DefaultAdmin EXCEPT !.id = UserByName("admin").id]}
            /\ UNCHANGED nextUserId
       ELSE /\ nextUserId <= MaxUsers
            /\ users' = users \cup {[DefaultAdmin EXCEPT !.id = nextUserId]}
            /\ nextUserId' = nextUserId + 1
    /\ Respond("Startup", 0, "", TRUE, NoToken, FALSE)

\* The process is started again on the same database file: Initialize
\* migrates, createDefaultAdminUser counts the users and inserts the
\* default administrator when there are none.
createDefaultAdminUser ==
    /\ UNCHANGED rest
    /\ UNCHANGED <<settings, tasks, held, now, created, exec>>
    /\ serverUp' = TRUE
    /\ IF Cardinality(users) = 0
       THEN /\ nextUserId <= MaxUsers
            /\ users' = users \cup {[DefaultAdmin EXCEPT !.id = nextUserId]}
            /\ nextUserId' = nextUserId + 1
       ELSE UNCHANGED <<users, nextUserId>>
    /\ Respond("Startup", 0, "", TRUE, NoToken, FALSE)

\* The wall clock advances by one token lifetime.
Tick ==
    /\ now + AccessTokenExpireMinutes <= MaxTime
    /\ now' = now + AccessTokenExpireMinutes
    /\ UNCHANGED rest
    /\ UNCHANGED <<users, nextUserId, settings, tasks, held, created, exec, resp, serverUp>>

-----------------------------------------------------------------------------
(* The request-level program from a fresh database: every handler is one    *)
(* step.                                                                    *)

Next ==
    \/ \E u \in LoginUsernames, p \in LoginPasswords : Login(u, p) /\ UNCHANGED gate
    \/ \E h \in Headers : GetUserStatus(h)
    \/ \E h \in Headers : GetSettings(h)
    \/ \E h \in Headers, r \in CreateUserRequests : CreateUser(h, r) /\ nextUserId' <= MaxUsers
    \/ \E h \in Headers : GetUsers(h)
    \/ \E h \in Headers, id \in 1..(MaxUsers - 1), r \in UpdateUserRequests : UpdateUser(h, id, r)
    \/ \E h \in Headers, id \in 1..(MaxUsers - 1) : DeleteUser(h, id)
    \/ Tick

Spec == Init /\ [][Next]_vars

-----------------------------------------------------------------------------
(* The users table under administration and restarts: logged-in users      *)
(* create, change and delete users, and the server is started again on the *)
(* same database.                                                           *)

RestartHeaders == {[parts |-> 2, scheme |-> "Bearer", token |-> held[u]] : u \in Usernames}

NextRestart ==
    \/ \E u \in Usernames, p \in Passwords : Login(u, p) /\ UNCHANGED gate
    \/ \E h \in RestartHeaders, r \in CreateUserRequests : CreateUser(h, r)
    \/ \E h \in RestartHeaders, id \in 1..MaxUsers, r \in UpdateUserRequests : UpdateUser(h, id, r)
    \/ \E h \in RestartHeaders, id \in 1..MaxUsers : DeleteUser(h, id)
    \/ createDefaultAdminUser

SpecRestart == Init /\ [][NextRestart]_vars

-----------------------------------------------------------------------------
(* Properties *)

Terminal == {"completed", "failed"}

\* C1: every task row created by CreateTask eventually has status
\* "completed" or "failed", whatever name CreateTask accepted, given that
\* the goroutine is scheduled and every panel call returns.
C1_EveryTaskTerminates ==
    \A t \in 1..MaxTasks :
        (t \in DOMAIN tasks) ~> (t \in DOMAIN tasks /\ tasks[t].status \in Terminal)

\* The same for the three names executeTask dispatches on (holds).
KnownNamesTerminate ==
    \A t \in 1..MaxTasks :
        (t \in DOMAIN tasks /\ tasks[t].name \in KnownTaskNames)
            ~> (t \in DOMAIN tasks /\ tasks[t].status \in Terminal)

\* C2: CreateTask inserts the row as "pending" and answers 201 with a body
\* whose status is "pending", however the goroutine interleaves.
C2_CreateAnswersPending ==
    [][ /\ (Len(tasks') > Len(tasks) => tasks'[Len(tasks')].status = "pending")
        /\ \A t \in DOMAIN created :
              (created[t].pc = "respond" /\ created'[t].pc = "done")
                  => (created'[t].code = StatusCreated /\ created'[t].body.status = "pending")
      ]_vars

\* C2 witness: a response serialized after the goroutine had already written
\* a terminal status.
C2_RespondedAfterFinish ==
    \E t \in DOMAIN created :
        created[t].pc = "done" /\ created[t].raced /\ created[t].body.status = "pending"

\* C3: a stored status is always pending, completed or failed (never
\* "running"), and the only status changes are pending->completed and
\* pending->failed.
C3_StatusMonotonic ==
    /\ [](\A t \in DOMAIN tasks : tasks[t].status \in {"pending", "completed", "failed"})
    /\ [][\A t \in DOMAIN tasks :
             tasks'[t].status # tasks[t].status
                 => (tasks[t].status = "pending" /\ tasks'[t].status \in Terminal)]_vars

\* C3 witness: a row that went from pending to completed.
C3_RowCompleted ==
    \E t \in DOMAIN tasks : tasks[t].status = "completed" /\ exec[t].pc = "done"

\* C4: a panic in the goroutine leaves the row failed with the fixed
\* result and a completion time, and the server running.
C4_PanicBecomesFailed ==
    \A t \in DOMAIN exec :
        exec[t].panicked =>
            /\ serverUp
            /\ tasks[t].status = "failed"
            /\ tasks[t].result = [present |-> TRUE, success |-> FALSE, data |-> <<>>,
                                  error |-> <<"Internal server error: task execution panicked">>]
            /\ tasks[t].completed_at.valid

\* C4 witness: a goroutine that panicked between its two panel calls.
C4_PanickedMidway ==
    \E t \in DOMAIN exec : exec[t].panicked /\ exec[t].sim.lines + exec[t].http.lines = 1

\* C6: with APIKey == "test" and AuthUser == "test" the goroutine never
\* issues a real HTTP call, at any step of any task.
C6_SimulationNeverCallsPanel ==
    \A t \in DOMAIN exec :
        (exec[t].client.APIKey = "test" /\ exec[t].client.AuthUser = "test")
            => (exec[t].http.create = 0 /\ exec[t].http.lines = 0 /\ exec[t].http.renew = 0)

\* C6 witness: a simulated extend_package that did both its steps.
C6_SimulatedExtendRan ==
    \E t \in DOMAIN exec :
        /\ exec[t].client.APIKey = "test" /\ exec[t].client.AuthUser = "test"
        /\ exec[t].sim.lines = 1 /\ exec[t].sim.renew = 1 /\ exec[t].pc = "done"

CallsOf(e, op) == e.http[op] + e.sim[op]

\* C7: one goroutine per task, and it issues each panel request at most
\* once: one create call for create_account, one lookup for find_account,
\* one lookup and one renew for extend_package.
C7_SingleAttempt ==
    /\ Len(exec) = Len(tasks)
    /\ \A t \in DOMAIN tasks :
          /\ exec[t].launches = 1
          /\ CallsOf(exec[t], "create") <= (IF tasks[t].name = "create_account" THEN 1 ELSE 0)
          /\ CallsOf(exec[t], "lines") <= (IF tasks[t].name \in {"find_account", "extend_package"} THEN 1 ELSE 0)
          /\ CallsOf(exec[t], "renew") <= (IF tasks[t].name = "extend_package" THEN 1 ELSE 0)

\* C7 witness: a create call failed and the goroutine ended without another.
C7_FailedCallNotRetried ==
    \E t \in DOMAIN tasks :
        /\ exec[t].pc = "done" /\ ~exec[t].panicked
        /\ tasks[t].status = "failed" /\ exec[t].http.create = 1

\* C8: pending rows have no result and no completion time; completed rows
\* have a success result and a completion time; failed rows have a
\* non-success result and a completion time.
C8_RowShape ==
    \A t \in DOMAIN tasks :
        LET row == tasks[t] IN
        /\ row.status = "pending" => (~row.result.present /\ ~row.completed_at.valid)
        /\ row.status = "completed" =>
              (row.result.present /\ row.result.success /\ row.completed_at.valid)
        /\ row.status = "failed" =>
              (row.result.present /\ ~row.result.success /\ row.completed_at.valid)

\* C8 witness: a row failed because its result could not be serialized.
C8_FailedOnMarshal ==
    \E t \in DOMAIN tasks :
        /\ tasks[t].status = "failed"
        /\ tasks[t].result.error = <<"Failed to serialize result data">>

\* C9: every stored task is named create_account, find_account or
\* extend_package.
C9_OnlyKnownNames ==
    \A t \in DOMAIN tasks : tasks[t].name \in KnownTaskNames

\* C5: a Login with a well-formed body issues a token with 200 exactly when
\* the user exists, the password matches and the user is active, and
\* answers 401 without a token otherwise.
C5_LoginOnlyWithValidCredentials ==
    resp.op = "Login" =>
        /\ resp.token => (resp.entitled /\ resp.code = StatusOK)
        /\ resp.error # "binding" =>
              IF resp.entitled
              THEN resp.code = StatusOK /\ resp.token
              ELSE resp.code = StatusUnauthorized /\ ~resp.token

\* C5 witness: a login refused although the username exists.
C5_LoginRefused ==
    /\ resp.op = "Login" /\ resp.code = StatusUnauthorized /\ ~resp.token
    /\ resp.error = "Invalid username or password"
    /\ \E u \in users : u.username = "admin"

ProtectedOps ==
    {"GetUserStatus", "GetSettings", "UpdateSettings", "CreateTask",
     "CreateUser", "GetUsers", "UpdateUser", "DeleteUser"}

\* C10: a handler behind the auth middleware runs only for a Bearer token
\* that verifies and names an existing active user; any other request gets
\* 401, runs no handler and changes nothing in the store.
C10_ProtectedNeedsValidToken ==
    resp.op \in ProtectedOps =>
        /\ resp.ran => resp.entitled
        /\ ~resp.entitled => (resp.code = StatusUnauthorized /\ ~resp.ran /\ ~resp.wrote)

\* C10 witness: a well-signed, unexpired token refused because its user
\* has been deactivated.
C10_InactiveUserRefused ==
    /\ resp.op \in ProtectedOps /\ resp.code = StatusUnauthorized
    /\ resp.error = "User is inactive" /\ ~resp.ran

AdminOps == {"CreateUser", "GetUsers", "UpdateUser", "DeleteUser"}

\* C11: CreateUser, GetUsers, UpdateUser and DeleteUser run only for a
\* requester whose row has is_admin set when the request arrives; an
\* authenticated active requester without it gets 403 "Admin access
\* required" and the store is unchanged.
C11_AdminOpsNeedAdmin ==
    resp.op \in AdminOps =>
        /\ resp.ran => resp.admin
        /\ (resp.entitled /\ ~resp.admin) =>
              /\ resp.code = StatusForbidden /\ resp.error = "Admin access required"
              /\ ~resp.ran /\ ~resp.wrote

\* C11 witness: an active user with a valid token refused by an admin
\* operation that would have written.
C11_NonAdminRefused ==
    /\ resp.op \in {"CreateUser", "UpdateUser", "DeleteUser"}
    /\ resp.entitled /\ ~resp.admin /\ resp.code = StatusForbidden

\* C12: GetUserTasks answers exactly the rows whose user_id is the
\* requester's id; GetTask answers a row only when its user_id is the
\* requester's id and 404 "Task not found" otherwise; no response carries a
\* row of another user.
C12_ReadsIsolated ==
    /\ \A t \in resp.rows : tasks[t].user_id = resp.requester
    /\ (resp.op = "GetUserTasks" /\ resp.code = StatusOK) =>
          resp.rows = {t \in DOMAIN tasks : tasks[t].user_id = resp.requester}
    /\ (resp.op = "GetTask" /\ resp.ran) =>
          IF resp.arg \in DOMAIN tasks /\ tasks[resp.arg].user_id = resp.requester
          THEN resp.code = StatusOK /\ resp.rows = {resp.arg}
          ELSE /\ resp.code = StatusNotFound /\ resp.error = "Task not found"
               /\ resp.rows = {}

\* C12 witness: a user asked for an existing task of another user.
C12_ForeignTaskHidden ==
    /\ resp.op = "GetTask" /\ resp.ran /\ resp.arg \in DOMAIN tasks
    /\ tasks[resp.arg].user_id # resp.requester /\ resp.code = StatusNotFound

\* C13: a server start inserts the default user (admin / admin, active,
\* administrator) exactly when the users table is empty, and leaves the
\* table as it is when it holds at least one user.
C13_DefaultAdminIffEmpty ==
    [][ (resp'.op = "Startup" /\ resp' # resp) =>
          IF users = {}
          THEN \E u \in users' :
                  /\ users' = {u}
                  /\ u.username = "admin"
                  /\ u.hashed_password = <<"bcrypt", BcryptCost, "admin">>
                  /\ u.is_active /\ u.is_admin
          ELSE users' = users
      ]_vars

\* C13 witness: the last user was deleted and a restart put the default
\* administrator back.
C13_AdminRecreated ==
    /\ resp.op = "Startup" /\ resp.wrote
    /\ \E u \in users : u.username = "admin" /\ u.id > 1

\* C14: no two user rows ever share a username, concurrent CreateUser
\* calls for the same name included, and a CreateUser that finds the name
\* taken answers 400 "Username already registered" without writing.
C14_UsernamesUnique ==
    /\ \A u1, u2 \in users : u1.username = u2.username => u1 = u2
    /\ (resp.op = "CreateUser" /\ resp.error = "Username already registered") =>
          (resp.code = StatusBadRequest /\ ~resp.wrote)

\* C14 witness: of two overlapping CreateUser calls for the same name, the
\* second insert was rejected.
C14_LostRace ==
    /\ resp.op = "CreateUser" /\ resp.code = StatusInternalServerError
    /\ \E u \in users : u.username = "bob"

\* C15: there is at most one settings row per user, overlapping first
\* UpdateSettings calls included, and GetSettings answers the fields of the
\* requester's last UpdateSettings that answered 200, or empty strings.
C15_OneSettingsRow ==
    /\ \A s1, s2 \in settings : s1.user_id = s2.user_id => s1 = s2
    /\ \A id \in 1..MaxUsers : BodyOf(SettingsOf(id)) = saved[id]
    /\ (resp.op = "GetSettings" /\ resp.code = StatusOK) =>
          resp.body = saved[resp.requester]

\* C15 witness: of two overlapping first UpdateSettings calls, the second
\* insert was rejected.
C15_SecondCreateRejected ==
    /\ resp.op = "UpdateSettings" /\ resp.code = StatusInternalServerError
    /\ HasSettings(resp.requester)

\* C18: a non-200 panel answer whose body holds an HTML marker is reported
\* as a connection error whose text depends on the status alone (404, 500
\* and above, other), even when the body also parses as a JSON error
\* envelope; and the error text stored for a failed task holds none of the
\* five markers.
C18_HTMLClassifiedFirst ==
    \A t \in DOMAIN tasks :
        LET markers == {"<!DOCTYPE", "<html", "<body", "<head", "<title"}
            e == exec[t]
            text == tasks[t].result.error
        IN
        /\ tasks[t].status = "failed" => \A i \in DOMAIN text : text[i] \notin markers
        /\ ( /\ e.pc = "done" /\ ~e.panicked
             /\ ~e.reply.transport_err /\ e.reply.status \notin {0, 200}
             /\ \E i \in DOMAIN e.reply.body : e.reply.body[i] \in markers )
           => /\ tasks[t].status = "failed"
              /\ text = << "connection error: ",
                           IF e.reply.status = 404
                           THEN "The panel URL is incorrect or the service could not be found. Please check your settings."
                           ELSE IF e.reply.status >= 500
                           THEN "The external service is currently unavailable. Please try again later."
                           ELSE "Could not connect to the panel. Please verify your panel URL and try again." >>

\* C18 witness: the panel answered 404 with an HTML page wrapped in a JSON
\* error envelope.
C18_HTMLInsideEnvelope ==
    \E t \in DOMAIN tasks :
        /\ exec[t].pc = "done" /\ tasks[t].status = "failed"
        /\ exec[t].reply.status = 404 /\ exec[t].reply.envelope_ok
        /\ exec[t].reply.body[1] = "{"

\* C19: in simulation mode a create_account, find_account or
\* extend_package task that ran to its end is "completed" with a success
\* result, for every username and every package number.
C19_SimulationAlwaysCompletes ==
    \A t \in DOMAIN tasks :
        ( /\ exec[t].client.APIKey = "test" /\ exec[t].client.AuthUser = "test"
          /\ tasks[t].name \in {"create_account", "find_account", "extend_package"}
          /\ exec[t].pc = "done" /\ ~exec[t].panicked )
        => (tasks[t].status = "completed" /\ tasks[t].result.success)

\* C20: an extend_package task issues the renew call only after its lookup
\* returned at least one line, and for the first line returned; when the
\* lookup fails or returns no line there is no renew call and the task is
\* failed, with "No accounts found with the provided username" when the
\* lookup returned no line.
C20_RenewFirstLineOnly ==
    \A t \in DOMAIN tasks :
        LET e == exec[t] IN
        tasks[t].name = "extend_package" =>
            /\ e.http.renew + e.sim.renew > 0 =>
                  /\ e.lookup = "returned" /\ Len(e.found) >= 1
                  /\ e.renewed = e.found[1]
            /\ (e.pc = "done" /\ ~e.panicked /\ e.lookup = "failed") =>
                  (e.http.renew + e.sim.renew = 0 /\ tasks[t].status = "failed")
            /\ (e.pc = "done" /\ ~e.panicked /\ e.lookup = "returned" /\ Len(e.found) = 0) =>
                  /\ e.http.renew + e.sim.renew = 0
                  /\ tasks[t].status = "failed"
                  /\ tasks[t].result.error = <<"No accounts found with the provided username">>

\* C20 witness: the lookup returned two lines and the renew call was made
\* for the first.
C20_RenewedFirstOfTwo ==
    \E t \in DOMAIN tasks :
        /\ tasks[t].name = "extend_package" /\ exec[t].pc = "done"
        /\ Len(exec[t].found) = 2 /\ exec[t].renewed = exec[t].found[1]
        /\ exec[t].http.renew = 1

\* C16: while its interval is set the page polls every 2 seconds; the
\* interval stays set while no poll has seen "completed" or "failed", no
\* poll request has failed and the 5 minutes have not run out, is cleared
\* as soon as one of these happens, and no poll is sent afterwards.
C16_PollsUntilStopped ==
    /\ [](poll.task # 0 =>
             (poll.interval <=> (~poll.observed /\ ~poll.failed /\ poll.timeout)))
    /\ [][poll'.sent > poll.sent =>
             /\ ~poll.observed /\ ~poll.failed /\ poll.timeout
             /\ poll.elapsed > 0 /\ poll.elapsed % 2000 = 0 /\ poll.elapsed <= 300000
         ]_vars

\* C16 witness: a poll request failed and the interval was cleared before
\* the 5 minutes ran out.
C16_StoppedOnFailedPoll ==
    poll.failed /\ ~poll.interval /\ poll.timeout /\ poll.elapsed < 300000

\* C17: the page shows "Task timed out" only if no poll saw a terminal
\* status and no poll request failed; an outcome seen by a poll is never
\* replaced by "Task timed out".
C17_TimedOutOnlyIfNothingSeen ==
    poll.error = "Task timed out" => (~poll.observed /\ ~poll.failed)

\* C21: a CreateTask request of an authenticated user whose body lacks name
\* or target_website is answered 400, and one whose user has no settings
\* row is answered 404 "Settings not found"; neither inserts a task row,
\* starts a goroutine or makes a panel call.
C21_RejectedLeavesNoTrace ==
    [][ \A r \in TaskRequests :
          LET h == [parts |-> 2, scheme |-> "Bearer", token |-> held["admin"]]
              incomplete == r.name = "" \/ r.target_website = ""
              unconfigured == \A s \in settings : s.user_id # 1
          IN CreateTask(h, r) =>
                /\ incomplete =>
                      /\ resp'.code = StatusBadRequest
                      /\ tasks' = tasks /\ created' = created /\ exec' = exec
                /\ (~incomplete /\ unconfigured) =>
                      /\ resp'.code = StatusNotFound /\ resp'.error = "Settings not found"
                      /\ tasks' = tasks /\ created' = created /\ exec' = exec
                /\ resp'.code \in {StatusBadRequest, StatusNotFound} => ~resp'.wrote
      ]_vars

\* C21 witness: a well-formed request of a user without settings was
\* refused and the tables and the goroutine list are empty.
C21_RefusedWithoutSettings ==
    /\ resp.op = "CreateTask" /\ resp.code = StatusNotFound /\ resp.ran
    /\ tasks = <<>> /\ exec = <<>> /\ created = <<>>

\* C22: a Login that succeeds changes nothing but last_login_at of one
\* row, also when an UpdateUser on the same user ran between its lookup and
\* its write: the is_active, is_admin and hashed_password values in the
\* table when Login writes are still there afterwards.
C22_LoginWritesOnlyLastLogin ==
    [][ \A i \in 1..MaxFlight :
          (flight[i].op = "Login" /\ flight'[i].op = "") =>
              /\ \A u \in users : \E v \in users' :
                    v = [u EXCEPT !.last_login_at = v.last_login_at]
              /\ \A v \in users' : \E u \in users : u.id = v.id
      ]_vars

\* C23: a row that UpdateUser left inactive stays inactive until an
\* UpdateUser sets is_active again, and meanwhile every request with a token
\* of that user and every Login of that user is answered 401; a row that
\* UpdateUser left without is_admin stays so until an UpdateUser sets it,
\* and meanwhile every /admin request of that user is answered 403.
C23_DecidedFromRowAtRequestTime ==
    [][ /\ resp'.op # "UpdateUser" =>
              \A u \in users : \A v \in users' :
                  v.id = u.id => /\ (~u.is_active => ~v.is_active)
                                 /\ (~u.is_admin => ~v.is_admin)
        /\ \A name \in Usernames :
              LET h == [parts |-> 2, scheme |-> "Bearer", token |-> held[name]]
                  inactive == \E u \in users : u.username = name /\ ~u.is_active
                  demoted == \E u \in users : u.username = name /\ u.is_active /\ ~u.is_admin
              IN /\ (inactive /\ held[name].username = name /\ GetUserStatus(h))
                        => resp'.code = StatusUnauthorized
                 /\ (inactive /\ \E p \in Passwords : LoginAuthenticate(name, p))
                        => (resp'.code = StatusUnauthorized /\ flight' = flight)
                 /\ (demoted /\ held[name].username = name /\ ~(now > held[name].exp)
                        /\ GetUsers(h))
                        => resp'.code = StatusForbidden
      ]_vars

\* C24: a request is processed as the user row its token was issued to,
\* and as no other row: not as a row created under the same username after
\* that row was deleted.
C24_TokenBoundToItsRow ==
    (resp.op = "GetUserStatus" /\ resp.ran) => resp.requester = resp.subject

\* C25: an UpdateUser whose body has no password or an empty one leaves
\* hashed_password as it was, and one whose body has no is_admin
\* (is_active) key leaves is_admin (is_active) as it was.
C25_OnlySuppliedFieldsChange ==
    [][ \A name \in Usernames, id \in 1..MaxUsers, b \in UpdateUserBodies :
          LET h == [parts |-> 2, scheme |-> "Bearer", token |-> held[name]] IN
          (UpdateUserPut(h, id, b) /\ resp'.code = StatusOK) =>
              \A u \in users : \A v \in users' :
                  (u.id = id /\ v.id = id) =>
                      /\ ("password" \notin DOMAIN b \/ b.password = "")
                            => v.hashed_password = u.hashed_password
                      /\ "is_admin" \notin DOMAIN b => v.is_admin = u.is_admin
                      /\ "is_active" \notin DOMAIN b => v.is_active = u.is_active
      ]_vars

\* C26: in every state after the default administrator was created, some
\* user is both active and an administrator.
C26_AlwaysAnActiveAdmin ==
    \E u \in users : u.is_active /\ u.is_admin

\* C27: once a limiter is stored for an address its map entry is never
\* replaced, and every GetLimiter call for that address returns that
\* limiter, however the calls interleave.
C27_OneLimiterPerIP ==
    /\ [][\A ip \in ClientIPs : gate.ips[ip] # 0 => gate'.ips[ip] = gate.ips[ip]]_vars
    /\ [](\A i \in 1..MaxCalls :
             gate.calls[i].pc = "allow" => gate.calls[i].limiter = gate.ips[gate.calls[i].ip])

\* C28: with no time passing at most 20 requests of one address go on to
\* a handler; a request answered 429 "Rate limit exceeded" ran no handler
\* and changed nothing; and an address is refused only when 20 of its own
\* requests were admitted.
C28_AtMostBurstAdmitted ==
    /\ [](\A ip \in ClientIPs : gate.admitted[ip] <= 20)
    /\ [](resp.code = 429 =>
             (resp.error = "Rate limit exceeded" /\ ~resp.ran /\ ~resp.wrote))
    /\ [][\A i \in 1..MaxCalls :
             (gate.calls[i].pc = "allow" /\ gate'.calls[i].pc = "idle"
                /\ gate'.admitted = gate.admitted)
                 => gate.admitted[gate.calls[i].ip] >= 20]_vars

=============================================================================
